---------------------------- MODULE Spec2Model ----------------------------
(***************************************************************************)
(* Model of the guarded-query execution core of the mcp-servers            *)
(* repository: the SQLite and Postgres read-only query gates with the      *)
(* tool-call handlers that run them, and the filesystem server's path      *)
(* confinement with the tool calls that perform I/O behind it.             *)
(*                                                                         *)
(* Strings are sequences of one-character strings, so that trimming, case  *)
(* folding, prefix tests and regular-expression tests are computed on      *)
(* characters as the TypeScript code computes them.                        *)
(***************************************************************************)
EXTENDS Integers, Sequences, FiniteSets, TLC

VARIABLES
    server,      \* which server process this is (cli run <server>)
    READ_ONLY,   \* sqlite-mcp: SQLITE_READONLY !== 'false'
    dbFile,      \* sqlite-mcp: whether the database file exists on disk
    db,          \* sqlite-mcp: the cached Database handle (FALSE: null)
    sqPc,        \* sqlite-mcp: "idle" or "done" (a reply is in flight)
    sqSql,       \* sqlite-mcp: the sql argument of the call
    sqTrace,     \* sqlite-mcp: what executeQuery did, in order
    sqResp,      \* sqlite-mcp: the handler's reply
    sqTool,      \* sqlite-mcp: the tool called
    sqTable,     \* sqlite-mcp: the table argument of the call
    sqCatalog,   \* sqlite-mcp: the table names sqlite_master holds
    sqStmts,     \* sqlite-mcp: the text of every statement prepared, in order
    sqColumns,   \* sqlite-mcp: the text columns PRAGMA table_info reports
    sqTerm,      \* sqlite-mcp: the search term of the call
    sqParams,    \* sqlite-mcp: the values bound to the statements, in order
    sqRows,      \* sqlite-mcp: the rows the engine answered the query with
    sqOut,       \* sqlite-mcp: the result executeQuery returned
    pgPc,        \* postgres-mcp: the handler's position
    pgCall,      \* postgres-mcp: the tool called and its arguments
    pgTrace,     \* postgres-mcp: pool and client operations, in order
    pgHeld,      \* postgres-mcp: a pooled client is held by the handler
    pgFailed,    \* postgres-mcp: the try block threw
    pgResp,      \* postgres-mcp: the handler's reply
    pgOut,       \* postgres-mcp: the rows the query selects and the rows returned
    FS_ROOT,     \* filesystem-mcp: the configured root, as given
    home,        \* filesystem-mcp: os.homedir()
    fsPc,        \* filesystem-mcp: "idle" or "done"
    fsCall,      \* filesystem-mcp: the request being answered
    fsIo,        \* filesystem-mcp: paths the handler did file or directory I/O on
    fsResp,      \* filesystem-mcp: the handler's reply
    fsDisk,      \* filesystem-mcp: what the handler found on disk
    fsOut,       \* filesystem-mcp: what the handler's helper returned
    fsStat,      \* filesystem-mcp: stats.size, while readFileContent awaits the read
    vault,       \* obsidian-mcp: the markdown files under VAULT_PATH
    clock,       \* obsidian-mcp: Date.now()
    noteCache,   \* obsidian-mcp: the Map of cached notes, in insertion order
    lastCacheUpdate, \* obsidian-mcp: time of the last completed rebuild
    obPc,        \* obsidian-mcp: "idle" or "done"
    obSeen,      \* obsidian-mcp: the notes the handler iterated over
    obResp,      \* obsidian-mcp: "result", or "thrown" out of the handler
    obBefore,    \* obsidian-mcp: the cache and its time stamp as the call found them
    obRead,      \* obsidian-mcp: what readNote was asked for, read and returned
    stAdapter,   \* start-up: the adapter whose entry point runs
    stEnv,       \* start-up: what the environment of the process holds
    stPc,        \* start-up: "load", "main", "connected" or "exited"
    stExit,      \* start-up: the code given to process.exit (-1: none)
    stDiag,      \* start-up: lines written with console.error before the exit
    stServed,    \* start-up: tool calls served since the transport connected
    maxRequests, \* rate limiter: this.maxRequests
    timestamps,  \* rate limiter: this.timestamps
    rlClock,     \* rate limiter: Date.now(), from the construction of the limiter
    rlAccepted,  \* rate limiter: the time of every accepted call, in order
    rlLast,      \* rate limiter: the last call and its outcome
    rlTicks,     \* rate limiter: how often the clock has advanced
    ldMax,       \* listDir: MAX_RESULTS, as FS_MAX_RESULTS sets it at start-up
    ldPc,        \* listDir: "idle" or "done"
    ldTree,      \* listDir: the entries of the start directory, as readdir gives them
    ldStart,     \* listDir: the start directory, relative to FS_ROOT
    ldRecursive, \* listDir: the recursive argument
    ldOut        \* listDir: results, and the directories read and entries pushed, in order

sqVars ==
    <<READ_ONLY, dbFile, db, sqPc, sqSql, sqTrace, sqResp,
      sqTool, sqTable, sqCatalog, sqStmts, sqColumns, sqTerm, sqParams, sqRows, sqOut>>
pgVars == <<pgPc, pgCall, pgTrace, pgHeld, pgFailed, pgResp, pgOut>>
fsVars == <<FS_ROOT, home, fsPc, fsCall, fsIo, fsResp, fsDisk, fsOut, fsStat>>
obVars == <<vault, clock, noteCache, lastCacheUpdate, obPc, obSeen, obResp, obBefore>>
stVars == <<stAdapter, stEnv, stPc, stExit, stDiag, stServed>>
rlVars == <<maxRequests, timestamps, rlClock, rlAccepted, rlLast, rlTicks>>
ldVars == <<ldMax, ldPc, ldTree, ldStart, ldRecursive, ldOut>>
vars == <<server, sqVars, pgVars, fsVars, obVars, stVars, rlVars, ldVars, obRead>>

(***************************************************************************)
(* Bounds of the model.                                                    *)
(***************************************************************************)
MaxFrags == 3      \* a query is at most this many fragments long
MaxPathLen == 4    \* a path argument is at most this many characters long
MaxNameLen == 2    \* a table name is at most this many characters long
MaxExtraRows == 3  \* the engine answers with at most MAX_ROWS plus this many rows
MaxExtraEntries == 3  \* a directory or glob yields at most MAX_RESULTS plus this many
MaxPeriods == 2    \* the clock runs for at most this many lifetimes of the note cache
MaxServed == 3     \* a started server is followed for at most this many tool calls
MaxLimit == 2      \* the rate limiter allows at most this many requests per minute
MaxAccepted == 4   \* the rate limiter is followed for at most this many accepted calls
MaxExtraChars == 1 \* a note is at most MAX_CONTENT_LENGTH plus this many characters long
MaxCap == 3        \* a listing is capped at this many entries, or at the default
MaxBeyond == 2     \* a chain of directories goes at most this many levels beyond the depth limit
MaxTicks == 3      \* the rate limiter's clock advances at most this many times

(***************************************************************************)
(* Characters and the JavaScript string operations the gates use.          *)
(***************************************************************************)
LowerLetters ==
    {"a", "b", "c", "d", "e", "f", "g", "h", "i", "j", "k", "l", "m",
     "n", "o", "p", "q", "r", "s", "t", "u", "v", "w", "x", "y", "z"}

UpperLetters ==
    {"A", "B", "C", "D", "E", "F", "G", "H", "I", "J", "K", "L", "M",
     "N", "O", "P", "Q", "R", "S", "T", "U", "V", "W", "X", "Y", "Z"}

Digits == {"0", "1", "2", "3", "4", "5", "6", "7", "8", "9"}

UpperOf ==
    [c \in LowerLetters |->
        CASE c = "a" -> "A" [] c = "b" -> "B" [] c = "c" -> "C" [] c = "d" -> "D"
          [] c = "e" -> "E" [] c = "f" -> "F" [] c = "g" -> "G" [] c = "h" -> "H"
          [] c = "i" -> "I" [] c = "j" -> "J" [] c = "k" -> "K" [] c = "l" -> "L"
          [] c = "m" -> "M" [] c = "n" -> "N" [] c = "o" -> "O" [] c = "p" -> "P"
          [] c = "q" -> "Q" [] c = "r" -> "R" [] c = "s" -> "S" [] c = "t" -> "T"
          [] c = "u" -> "U" [] c = "v" -> "V" [] c = "w" -> "W" [] c = "x" -> "X"
          [] c = "y" -> "Y" [] c = "z" -> "Z"]

UpperChar(c) == IF c \in LowerLetters THEN UpperOf[c] ELSE c

LowerOf == [c \in UpperLetters |-> CHOOSE l \in LowerLetters : UpperOf[l] = c]

LowerChar(c) == IF c \in UpperLetters THEN LowerOf[c] ELSE c

\* \w of a JavaScript regular expression
WordChars == LowerLetters \cup UpperLetters \cup Digits \cup {"_"}

IsWordChar(c) == c \in WordChars

\* \s of a JavaScript regular expression, and what trim() strips
IsSpace(c) == c \in {" ", "\t", "\n", "\r"}

ToUpperCase(s) == [i \in 1..Len(s) |-> UpperChar(s[i])]

ToLowerCase(s) == [i \in 1..Len(s) |-> LowerChar(s[i])]

Trim(s) ==
    LET keep == {i \in 1..Len(s) : ~IsSpace(s[i])}
    IN  IF keep = {} THEN <<>>
        ELSE LET lo == CHOOSE i \in keep : \A j \in keep : i <= j
                 hi == CHOOSE i \in keep : \A j \in keep : j <= i
             IN  SubSeq(s, lo, hi)

StartsWith(s, p) == Len(p) <= Len(s) /\ SubSeq(s, 1, Len(p)) = p

\* s.includes(p)
Includes(s, p) ==
    \E i \in 1..(Len(s) - Len(p) + 1) : SubSeq(s, i, i + Len(p) - 1) = p

\* a keyword scan that forgets the word boundaries: new RegExp(keyword, 'i')
RegexSubstringTest(keyword, s) ==
    \E i \in 1..(Len(s) - Len(keyword) + 1) :
        \A j \in 1..Len(keyword) : UpperChar(s[i + j - 1]) = UpperChar(keyword[j])

\* new RegExp(`\\b${keyword}\\b`, 'i').test(s): the keyword is made of word
\* characters, so \b before it asks for the start of the string or a non-word
\* character, and \b after it for the end of the string or a non-word character.
RegexWordTest(keyword, s) ==
    \E i \in 1..(Len(s) - Len(keyword) + 1) :
        /\ \A j \in 1..Len(keyword) : UpperChar(s[i + j - 1]) = UpperChar(keyword[j])
        /\ (i = 1 \/ ~IsWordChar(s[i - 1]))
        /\ (i + Len(keyword) - 1 = Len(s) \/ ~IsWordChar(s[i + Len(keyword)]))

\* a semicolon test that forgets the whitespace between: /;\S/
RegexSemicolonAdjacent(s) ==
    \E i \in 1..(Len(s) - 1) : s[i] = ";" /\ ~IsSpace(s[i + 1])

\* /;[\s]*\S/.test(s)
RegexSemicolonTest(s) ==
    \E i \in 1..Len(s) :
        /\ s[i] = ";"
        /\ \E j \in (i + 1)..Len(s) :
              /\ ~IsSpace(s[j])
              /\ \A k \in (i + 1)..(j - 1) : IsSpace(s[k])

(***************************************************************************)
(* Keywords.                                                               *)
(***************************************************************************)
KwSELECT == <<"S", "E", "L", "E", "C", "T">>
KwWITH == <<"W", "I", "T", "H">>
KwEXPLAIN == <<"E", "X", "P", "L", "A", "I", "N">>
KwINTO == <<"I", "N", "T", "O">>
KwEXECUTE == <<"E", "X", "E", "C", "U", "T", "E">>
KwLOCK == <<"L", "O", "C", "K">>

SqliteDangerous ==
    << <<"I", "N", "S", "E", "R", "T">>,
       <<"U", "P", "D", "A", "T", "E">>,
       <<"D", "E", "L", "E", "T", "E">>,
       <<"D", "R", "O", "P">>,
       <<"A", "L", "T", "E", "R">>,
       <<"C", "R", "E", "A", "T", "E">>,
       <<"A", "T", "T", "A", "C", "H">>,
       <<"D", "E", "T", "A", "C", "H">>,
       <<"R", "E", "P", "L", "A", "C", "E">>,
       <<"T", "R", "U", "N", "C", "A", "T", "E">>,
       <<"P", "R", "A", "G", "M", "A">>,
       <<"V", "A", "C", "U", "U", "M">>,
       <<"R", "E", "I", "N", "D", "E", "X">>,
       <<"A", "N", "A", "L", "Y", "Z", "E">> >>

PgDangerous ==
    << <<"i", "n", "s", "e", "r", "t">>,
       <<"u", "p", "d", "a", "t", "e">>,
       <<"d", "e", "l", "e", "t", "e">>,
       <<"d", "r", "o", "p">>,
       <<"a", "l", "t", "e", "r">>,
       <<"c", "r", "e", "a", "t", "e">>,
       <<"t", "r", "u", "n", "c", "a", "t", "e">>,
       <<"g", "r", "a", "n", "t">>,
       <<"r", "e", "v", "o", "k", "e">>,
       <<"c", "o", "p", "y">> >>

(***************************************************************************)
(* The query strings the tool calls are given: every concatenation of at   *)
(* most MaxFrags fragments.                                                *)
(***************************************************************************)
QueryFragments ==
    { KwSELECT,
      KwEXPLAIN,
      <<"I", "N", "S", "E", "R", "T">>,
      <<"d", "r", "o", "p">>,
      KwINTO,
      <<" ">>, <<";">>, <<" ", "_">> }

RECURSIVE QueriesOfLen(_)
QueriesOfLen(n) ==
    IF n = 0 THEN {<<>>}
    ELSE {q \o f : q \in QueriesOfLen(n - 1), f \in QueryFragments}

Queries == UNION {QueriesOfLen(n) : n \in 0..MaxFrags}

(***************************************************************************)
(* The verdict of a gate.  A denial carries the message of the error and   *)
(* the keyword the message names (<<>>: none).                             *)
(***************************************************************************)
Allowed == [allowed |-> TRUE, message |-> "", keyword |-> <<>>]

Denied(message, keyword) ==
    [allowed |-> FALSE, message |-> message, keyword |-> keyword]

\* for (const keyword of dangerous) { if (regex.test(sql)) ... }: the index of
\* the first keyword of the list, from k on, that matches; 0 when none does
RECURSIVE FirstDangerous(_, _, _)
FirstDangerous(dangerous, sql, k) ==
    IF k > Len(dangerous) THEN 0
    ELSE IF RegexWordTest(dangerous[k], sql) THEN k
    ELSE FirstDangerous(dangerous, sql, k + 1)

(***************************************************************************)
(* sqlite-mcp: the read-only gate of executeQuery.                         *)
(***************************************************************************)
SqlitePrefixMessage ==
    "Only SELECT, WITH, and EXPLAIN queries are allowed in read-only mode"

SqliteKeywordMessage == "Query contains forbidden keyword: "

SqliteMultiMessage == "Multiple statements are not allowed"

\* a prefix test that forgets trim()
SqlitePrefixUntrimmed(sql) ==
    \/ StartsWith(ToUpperCase(sql), KwSELECT)
    \/ StartsWith(ToUpperCase(sql), KwWITH)
    \/ StartsWith(ToUpperCase(sql), KwEXPLAIN)

\* upper.startsWith('SELECT') || upper.startsWith('WITH') || upper.startsWith('EXPLAIN')
SqlitePrefixOk(sql) ==
    \/ StartsWith(ToUpperCase(Trim(sql)), KwSELECT)
    \/ StartsWith(ToUpperCase(Trim(sql)), KwWITH)
    \/ StartsWith(ToUpperCase(Trim(sql)), KwEXPLAIN)

\* a gate that scans for keywords before it tests the prefix, as pg_query does
SqliteGateKeywordFirst(sql) ==
    IF FirstDangerous(SqliteDangerous, sql, 1) # 0
    THEN Denied(SqliteKeywordMessage,
                SqliteDangerous[FirstDangerous(SqliteDangerous, sql, 1)])
    ELSE IF ~SqlitePrefixOk(sql)
    THEN Denied(SqlitePrefixMessage, <<>>)
    ELSE IF RegexSemicolonTest(sql)
    THEN Denied(SqliteMultiMessage, <<>>)
    ELSE Allowed

SqliteGate(sql) ==
    IF ~SqlitePrefixOk(sql)
    THEN Denied(SqlitePrefixMessage, <<>>)
    ELSE IF FirstDangerous(SqliteDangerous, sql, 1) # 0
    THEN Denied(SqliteKeywordMessage,
                SqliteDangerous[FirstDangerous(SqliteDangerous, sql, 1)])
    ELSE IF RegexSemicolonTest(sql)
    THEN Denied(SqliteMultiMessage, <<>>)
    ELSE Allowed

\* isQueryAllowed of the sqlite tests ("same logic as in sqlite-mcp")
IsQueryAllowed(sql) ==
    LET upper == ToUpperCase(Trim(sql))
    IN  IF /\ ~StartsWith(upper, KwSELECT)
           /\ ~StartsWith(upper, KwWITH)
           /\ ~StartsWith(upper, KwEXPLAIN)
        THEN Denied("Must start with SELECT, WITH, or EXPLAIN", <<>>)
        ELSE IF FirstDangerous(SqliteDangerous, sql, 1) # 0
        THEN Denied("Contains forbidden keyword: ",
                    SqliteDangerous[FirstDangerous(SqliteDangerous, sql, 1)])
        ELSE IF RegexSemicolonTest(sql)
        THEN Denied("Multiple statements not allowed", <<>>)
        ELSE Allowed

(***************************************************************************)
(* postgres-mcp: the gate of pg_query and pg_explain.                      *)
(***************************************************************************)
PgKeywordMessage == "Error: Query contains forbidden keyword: "

PgPrefixMessage(tool) ==
    IF tool = "pg_query"
    THEN "Error: Only SELECT queries are allowed for safety. Use pg_describe_table for schema info."
    ELSE "Error: Only SELECT queries can be explained for safety."

PgGate(tool, query) ==
    LET trimmedQuery == ToLowerCase(Trim(query))
        k == FirstDangerous(PgDangerous, query, 1)
    IN  IF k # 0
        THEN Denied(PgKeywordMessage, ToUpperCase(PgDangerous[k]))
        ELSE IF /\ ~StartsWith(trimmedQuery, ToLowerCase(KwSELECT))
                /\ ~StartsWith(trimmedQuery, ToLowerCase(KwWITH))
        THEN Denied(PgPrefixMessage(tool), <<>>)
        ELSE Allowed

(***************************************************************************)
(* sqlite-mcp: the 'query' tool call.  The handler is synchronous: one     *)
(* action runs getDatabase, the gate, prepare and all, and builds the      *)
(* reply; sqTrace records what it did, in order.                           *)
(***************************************************************************)
NoReply == [kind |-> "none", message |-> "", keyword |-> <<>>, isError |-> FALSE]

Reply(kind, message, keyword, isError) ==
    [kind |-> kind, message |-> message, keyword |-> keyword, isError |-> isError]

\* getDatabase(): what it does, whether it throws, and the handle afterwards
GetDatabase ==
    IF db THEN [trace |-> <<>>, error |-> "", db |-> TRUE]
    ELSE IF dbFile = "missing"
    THEN [trace |-> <<"existsSync">>, error |-> "Database file not found: ", db |-> FALSE]
    ELSE [trace |-> <<"existsSync", "open">>, error |-> "", db |-> TRUE]

\* the result of executeQuery; rows are named by their position in the
\* engine's answer
NoOut == [rows |-> <<>>, rowCount |-> 0, truncated |-> FALSE]

MAX_ROWS == 100

\* stmt.all(): the n rows of the engine, in its order
EngineRows(n) == [i \in 1..n |-> i]

\* how many rows the engine answers with
RowCounts == {0, 1, MAX_ROWS - 1, MAX_ROWS, MAX_ROWS + 1, MAX_ROWS + MaxExtraRows}

\* a window that reports truncation when the cap is reached
WindowAtCap(rows) ==
    [rows |-> SubSeq(rows, 1, IF Len(rows) < MAX_ROWS THEN Len(rows) ELSE MAX_ROWS),
     rowCount |-> Len(rows),
     truncated |-> Len(rows) >= MAX_ROWS]

\* truncated = rows.length > MAX_ROWS; limitedRows = rows.slice(0, MAX_ROWS)
Window(rows) ==
    [rows |-> SubSeq(rows, 1, IF Len(rows) < MAX_ROWS THEN Len(rows) ELSE MAX_ROWS),
     rowCount |-> Len(rows),
     truncated |-> Len(rows) > MAX_ROWS]

\* an executeQuery that prepares the statement whatever the gate says
ExecuteQueryUngated(sql, engineOk) ==
    LET got == GetDatabase
        gated == IF READ_ONLY THEN <<"gate">> ELSE <<>>
    IN  IF got.error # ""
        THEN [trace |-> got.trace, db |-> got.db,
              reply |-> Reply("error", got.error, <<>>, FALSE)]
        ELSE IF ~engineOk
        THEN [trace |-> got.trace \o gated \o <<"prepare">>, db |-> got.db,
              reply |-> Reply("error", "Query failed: ", <<>>, FALSE)]
        ELSE [trace |-> got.trace \o gated \o <<"prepare", "all">>, db |-> got.db,
              reply |-> Reply("result", "", <<>>, FALSE)]

\* executeQuery(sql), with the engine's answer to prepare/all as engineOk
ExecuteQuery(sql, engineOk) ==
    LET got == GetDatabase
        verdict == IF READ_ONLY THEN SqliteGate(sql) ELSE Allowed
        gated == IF READ_ONLY THEN <<"gate">> ELSE <<>>
    IN  IF got.error # ""
        THEN [trace |-> got.trace, db |-> got.db,
              reply |-> Reply("error", got.error, <<>>, FALSE)]
        ELSE IF ~verdict.allowed
        THEN [trace |-> got.trace \o gated, db |-> got.db,
              reply |-> Reply("error", verdict.message, verdict.keyword, FALSE)]
        ELSE IF ~engineOk
        THEN [trace |-> got.trace \o gated \o <<"prepare">>, db |-> got.db,
              reply |-> Reply("error", "Query failed: ", <<>>, FALSE)]
        ELSE [trace |-> got.trace \o gated \o <<"prepare", "all">>, db |-> got.db,
              reply |-> Reply("result", "", <<>>, FALSE)]

SqCallTool ==
    /\ server = "sqlite"
    /\ sqPc = "idle"
    /\ \E sql \in Queries, engineOk \in BOOLEAN :
          \E r \in {ExecuteQuery(sql, engineOk)} :
              /\ sqSql' = sql
              /\ sqTrace' = r.trace
              /\ db' = r.db
              /\ sqResp' = r.reply
              /\ IF r.reply.kind = "result"
                 THEN \E n \in RowCounts :
                          sqRows' = EngineRows(n) /\ sqOut' = Window(EngineRows(n))
                 ELSE sqRows' = <<>> /\ sqOut' = NoOut
    /\ sqPc' = "done"
    /\ sqTool' = "query"
    /\ UNCHANGED <<server, READ_ONLY, dbFile, sqTable, sqCatalog, sqStmts,
                   sqColumns, sqTerm, sqParams, pgVars, fsVars, obVars, stVars, rlVars, ldVars, obRead>>

\* the reply is sent; the server waits for the next request
SqReply ==
    /\ server = "sqlite"
    /\ sqPc = "done"
    /\ sqPc' = "idle"
    /\ sqSql' = <<>>
    /\ sqTrace' = <<>>
    /\ sqResp' = NoReply
    /\ sqTool' = "none"
    /\ sqTable' = <<>>
    /\ sqCatalog' = <<>>
    /\ sqStmts' = <<>>
    /\ sqColumns' = <<>>
    /\ sqTerm' = <<>>
    /\ sqParams' = <<>>
    /\ sqRows' = <<>>
    /\ sqOut' = NoOut
    /\ UNCHANGED <<server, READ_ONLY, dbFile, db, pgVars, fsVars, obVars, stVars, rlVars, ldVars, obRead>>

\* between two calls the database file is removed or put back
SqDbFileChanges ==
    /\ server = "sqlite"
    /\ sqPc = "idle"
    /\ \E f \in {"ok", "missing"} : f # dbFile /\ dbFile' = f
    /\ UNCHANGED <<server, READ_ONLY, db, sqPc, sqSql, sqTrace, sqResp,
                   sqTool, sqTable, sqCatalog, sqStmts, sqColumns, sqTerm, sqParams,
                   sqRows, sqOut, pgVars, fsVars, obVars, stVars, rlVars, ldVars, obRead>>

NextSqlite == SqCallTool \/ SqReply \/ SqDbFileChanges

(***************************************************************************)
(* sqlite-mcp: identifiers, and the tools that take or read table names:   *)
(* list_tables, describe_table and sample.  sqStmts records the text of    *)
(* every statement handed to prepare, in order.                            *)
(***************************************************************************)
IdentStartChars == LowerLetters \cup UpperLetters \cup {"_"}

IdentChars == LowerLetters \cup UpperLetters \cup Digits \cup {"_"}

LooseChars == IdentChars \cup {" ", "-"}

\* /^[a-zA-Z_][a-zA-Z0-9_]*$/.test(name): without the m flag, $ is the end of
\* the input and nothing else
MatchesSimple(name) ==
    /\ name # <<>>
    /\ name[1] \in IdentStartChars
    /\ \A i \in 2..Len(name) : name[i] \in IdentChars

\* /^[a-zA-Z0-9_ -]+$/.test(name)
MatchesLoose(name) ==
    /\ name # <<>>
    /\ \A i \in 1..Len(name) : name[i] \in LooseChars

InvalidName(type) ==
    IF type = "table" THEN "Invalid table name: contains disallowed characters"
    ELSE IF type = "column" THEN "Invalid column name: contains disallowed characters"
    ELSE "Invalid schema name: contains disallowed characters"

\* a validation that lets the looser pattern end before a final newline
ValidateIdentifierLineEnd(name, type) ==
    LET body == IF name # <<>> /\ name[Len(name)] = "\n"
                THEN SubSeq(name, 1, Len(name) - 1) ELSE name
    IN  IF ~MatchesSimple(name) /\ ~MatchesLoose(body)
        THEN [ok |-> FALSE, name |-> <<>>, message |-> InvalidName(type)]
        ELSE [ok |-> TRUE, name |-> name, message |-> ""]

ValidateIdentifier(name, type) ==
    IF ~MatchesSimple(name) /\ ~MatchesLoose(name)
    THEN [ok |-> FALSE, name |-> <<>>, message |-> InvalidName(type)]
    ELSE [ok |-> TRUE, name |-> name, message |-> ""]

\* name.replace(/"/g, '""')
RECURSIVE DoubleQuotes(_)
DoubleQuotes(name) ==
    IF name = <<>> THEN <<>>
    ELSE (IF Head(name) = "\"" THEN <<"\"", "\"">> ELSE <<Head(name)>>)
         \o DoubleQuotes(Tail(name))

\* a quoting that wraps the name without escaping it
QuoteIdentifierUnescaped(name) == <<"\"">> \o name \o <<"\"">>

QuoteIdentifier(name) == <<"\"">> \o DoubleQuotes(name) \o <<"\"">>

\* the table names the tools are given
NameChars == {"a", "1", "_", " ", "-", ";", "'", "\"", "(", "/", "\\", "\n"}

RECURSIVE NamesOfLen(_)
NamesOfLen(n) ==
    IF n = 0 THEN {<<>>}
    ELSE {p \o <<c>> : p \in NamesOfLen(n - 1), c \in NameChars}

Names == UNION {NamesOfLen(n) : n \in 0..MaxNameLen}

\* what sqlite_master holds when a table is described
SampleCatalogs ==
    { <<>>,
      << <<"a">> >>,
      << <<"A">>, <<"a", "\"", "b">> >>,
      << <<"\"", ";", "\"">> >> }

SelectTables == <<"SELECT name, type FROM sqlite_master ...">>

TableInfoOf(safeName) == <<"PRAGMA table_info(">> \o safeName \o <<")">>

CountOf(safeName) == <<"SELECT COUNT(*) as count FROM ">> \o safeName

SampleOf(safeName) == <<"SELECT * FROM ">> \o safeName \o <<" LIMIT ?">>

\* tables.map(...) of listTables: two statements for each table of the catalog
RECURSIVE TableStatements(_)
TableStatements(catalog) ==
    IF catalog = <<>> THEN <<>>
    ELSE <<TableInfoOf(QuoteIdentifier(Head(catalog))),
           CountOf(QuoteIdentifier(Head(catalog)))>>
         \o TableStatements(Tail(catalog))

\* what a table tool did: the statements prepared, the values bound to
\* them, and the reply
TableReply(stmts, dbAfter, kind, message) ==
    [stmts |-> stmts, params |-> <<>>, db |-> dbAfter,
     reply |-> Reply(kind, message, <<>>, FALSE)]

Binding(done, params) == [done EXCEPT !.params = params]

\* listTables(); the engine fails at the statement numbered failAt, if any
ListTables(catalog, failAt) ==
    LET got == GetDatabase
        all == <<SelectTables>> \o TableStatements(catalog)
    IN  IF got.error # ""
        THEN TableReply(<<>>, got.db, "error", got.error)
        ELSE IF failAt \in 1..Len(all)
        THEN TableReply(SubSeq(all, 1, failAt), got.db, "error", "SQLITE_ERROR")
        ELSE TableReply(all, got.db, "result", "")

\* describeTable(tableName) and the describe_table case
DescribeTable(tableName, catalog, failAt) ==
    LET valid == ValidateIdentifier(tableName, "table")
        listed == ListTables(catalog, failAt)
        found == \E i \in 1..Len(catalog) :
                    ToLowerCase(catalog[i]) = ToLowerCase(tableName)
    IN  IF ~valid.ok
        THEN TableReply(<<>>, db, "error", valid.message)
        ELSE IF listed.reply.kind = "error" THEN listed
        ELSE IF ~found
        THEN TableReply(listed.stmts, listed.db, "result", "Table not found: ")
        ELSE listed

\* const { table, limit = 5 } = args
SampleLimit == 5

\* a sample that interpolates the name it was given without validating it
GetTableSampleUnvalidated(tableName, engineOk) ==
    LET got == GetDatabase
    IN  IF got.error # ""
        THEN TableReply(<<>>, got.db, "error", got.error)
        ELSE IF ~engineOk
        THEN Binding(TableReply(<<SampleOf(QuoteIdentifier(tableName))>>, got.db,
                                "error", "Failed to sample table: "), <<SampleLimit>>)
        ELSE Binding(TableReply(<<SampleOf(QuoteIdentifier(tableName))>>, got.db,
                                "result", ""), <<SampleLimit>>)

\* getTableSample(tableName, limit) and the sample case
GetTableSample(tableName, engineOk) ==
    LET got == GetDatabase
        valid == ValidateIdentifier(tableName, "table")
    IN  IF got.error # ""
        THEN TableReply(<<>>, got.db, "error", got.error)
        ELSE IF ~valid.ok
        THEN TableReply(<<>>, got.db, "error", valid.message)
        ELSE IF ~engineOk
        THEN Binding(TableReply(<<SampleOf(QuoteIdentifier(tableName))>>, got.db,
                                "error", "Failed to sample table: "), <<SampleLimit>>)
        ELSE Binding(TableReply(<<SampleOf(QuoteIdentifier(tableName))>>, got.db,
                                "result", ""), <<SampleLimit>>)

\* the text columns PRAGMA table_info reports for a table
SampleColumns == { <<>>, << <<"c">> >>, << <<"c">>, <<"\"", ";">> >> }

\* the search terms the tool is given
Terms == { <<"x">>, <<"'", ";">> }

Like == <<" LIKE '%' || ? || '%'">>

\* textColumns.map(col => `${quoteIdentifier(col.name)} LIKE ...`).join(' OR ')
RECURSIVE Conditions(_)
Conditions(columns) ==
    IF columns = <<>> THEN <<>>
    ELSE QuoteIdentifier(Head(columns)) \o Like \o
         (IF Tail(columns) = <<>> THEN <<>> ELSE <<" OR ">> \o Conditions(Tail(columns)))

SearchOf(safeName, columns) ==
    <<"SELECT * FROM ">> \o safeName \o <<" WHERE ">> \o Conditions(columns)
        \o <<" LIMIT 10">>

\* the loop of searchTables over the tables: for each table the columns are
\* read, and a table with text columns is searched; a statement the engine
\* fails skips the table
RECURSIVE SearchStatements(_, _, _)
SearchStatements(tables, columns, engineOk) ==
    IF tables = <<>> THEN <<>>
    ELSE <<TableInfoOf(QuoteIdentifier(Head(tables)))>>
         \o (IF engineOk /\ columns # <<>>
             THEN <<SearchOf(QuoteIdentifier(Head(tables)), columns)>>
             ELSE <<>>)
         \o SearchStatements(Tail(tables), columns, engineOk)

\* textColumns.map(() => searchTerm), for every table searched
RECURSIVE SearchParams(_, _, _, _)
SearchParams(tables, columns, searchTerm, engineOk) ==
    IF tables = <<>> \/ ~engineOk THEN <<>>
    ELSE [i \in 1..Len(columns) |-> searchTerm]
         \o SearchParams(Tail(tables), columns, searchTerm, engineOk)

\* searchTables(searchTerm, tableName) and the search case
SearchTables(searchTerm, tableName, catalog, columns, failAt, engineOk) ==
    LET got == GetDatabase
        valid == ValidateIdentifier(tableName, "table")
        listed == ListTables(catalog, failAt)
        tables == IF tableName # <<>> THEN <<tableName>> ELSE catalog
        before == IF tableName # <<>> THEN <<>> ELSE listed.stmts
    IN  IF got.error # ""
        THEN TableReply(<<>>, got.db, "error", got.error)
        ELSE IF tableName # <<>> /\ ~valid.ok
        THEN TableReply(<<>>, got.db, "error", valid.message)
        ELSE IF tableName = <<>> /\ listed.reply.kind = "error" THEN listed
        ELSE Binding(TableReply(before \o SearchStatements(tables, columns, engineOk),
                                got.db, "result", ""),
                     SearchParams(tables, columns, searchTerm, engineOk))

\* the ReadResource handler: describeTable(uri.replace('sqlite://', '')); what
\* describeTable throws, and 'Table not found', leave the handler
ReadTableResource(tableName, catalog, failAt) ==
    LET described == DescribeTable(tableName, catalog, failAt)
    IN  IF described.reply.kind = "error" \/ described.reply.message # ""
        THEN [described EXCEPT !.reply.kind = "thrown"]
        ELSE described

SqAnswer(tool, table, catalog, done) ==
    /\ sqPc' = "done"
    /\ sqTool' = tool
    /\ sqTable' = table
    /\ sqCatalog' = catalog
    /\ sqStmts' = done.stmts
    /\ sqParams' = done.params
    /\ db' = done.db
    /\ sqResp' = done.reply
    /\ UNCHANGED <<server, READ_ONLY, dbFile, sqSql, sqTrace, sqRows, sqOut, pgVars, fsVars, obVars, stVars, rlVars, ldVars, obRead>>

SqListTables ==
    /\ server = "sqlite"
    /\ sqPc = "idle"
    /\ UNCHANGED <<sqColumns, sqTerm>>
    /\ \E name \in Names, failAt \in 0..3 :
          \E done \in {ListTables(<<name>>, failAt)} :
              SqAnswer("list_tables", <<>>, <<name>>, done)

SqDescribeTable ==
    /\ server = "sqlite"
    /\ sqPc = "idle"
    /\ UNCHANGED <<sqColumns, sqTerm>>
    /\ \E table \in Names, catalog \in SampleCatalogs, failAt \in 0..1 :
          \E done \in {DescribeTable(table, catalog, failAt)} :
              SqAnswer("describe_table", table, catalog, done)

SqSample ==
    /\ server = "sqlite"
    /\ sqPc = "idle"
    /\ UNCHANGED <<sqColumns, sqTerm>>
    /\ \E table \in Names, engineOk \in BOOLEAN :
          \E done \in {GetTableSample(table, engineOk)} :
              SqAnswer("sample", table, <<>>, done)

SqSearch ==
    /\ server = "sqlite"
    /\ sqPc = "idle"
    /\ \E table \in Names, catalog \in SampleCatalogs, columns \in SampleColumns,
          term \in Terms, engineOk \in BOOLEAN :
          /\ table # <<>> => catalog = <<>>
          /\ sqColumns' = columns
          /\ sqTerm' = term
          /\ \E done \in {SearchTables(term, table, catalog, columns, 0, engineOk)} :
                SqAnswer("search", table, catalog, done)

SqReadResource ==
    /\ server = "sqlite"
    /\ sqPc = "idle"
    /\ UNCHANGED <<sqColumns, sqTerm>>
    /\ \E table \in Names, catalog \in SampleCatalogs, failAt \in 0..1 :
          \E done \in {ReadTableResource(table, catalog, failAt)} :
              SqAnswer("resource", table, catalog, done)

NextTables ==
    \/ SqListTables
    \/ SqDescribeTable
    \/ SqSample
    \/ SqSearch
    \/ SqReadResource
    \/ SqReply
    \/ SqDbFileChanges

(***************************************************************************)
(* postgres-mcp: the pg_query and pg_explain tool calls.  The handler      *)
(* awaits the pool and the client, so it is one action per await; each     *)
(* await succeeds or throws.  pgTrace records the pool and client          *)
(* operations in order, with the text of every statement sent.             *)
(***************************************************************************)
KwLimit == <<"l", "i", "m", "i", "t">>

\* const { query, limit = 100 } = args
DefaultLimit == 100

NoCall == [tool |-> "none", query |-> <<>>, limit |-> 0, analyze |-> FALSE]

PgEvent(op, text) == [op |-> op, text |-> text]

\* pg_query: safeQuery; pg_explain: explainQuery
PgStatement(call) ==
    IF call.tool = "pg_query"
    THEN IF ~Includes(ToLowerCase(Trim(call.query)), KwLimit)
         THEN call.query \o <<" ">> \o ToUpperCase(KwLimit) \o <<" ", ToString(call.limit)>>
         ELSE call.query
    ELSE IF call.analyze
    THEN KwEXPLAIN \o <<" ", "A", "N", "A", "L", "Y", "Z", "E", " ">> \o call.query
    ELSE KwEXPLAIN \o <<" ">> \o call.query

\* queries that hold the text 'limit': in the name of a column, and as a
\* clause of their own
LimitQueries ==
    {KwSELECT \o <<" ">> \o KwLimit \o <<"s">>,
     KwSELECT \o <<" ">> \o ToUpperCase(KwLimit) \o <<" ", ToString(2 * DefaultLimit)>>}

NoPgOut == [available |-> 0, rowCount |-> 0]

\* the number of rows the query selects from the tables
PgRowCounts == {0, DefaultLimit + 1, 2 * DefaultLimit + 1}

\* the LIMIT clause that ends a statement (-1: none)
LimitClause(stmt) ==
    IF /\ Len(stmt) >= 7
       /\ ToLowerCase(SubSeq(stmt, Len(stmt) - 6, Len(stmt) - 1)) = <<" ">> \o KwLimit \o <<" ">>
       /\ \E n \in 0..(2 * DefaultLimit) : ToString(n) = stmt[Len(stmt)]
    THEN CHOOSE n \in 0..(2 * DefaultLimit) : ToString(n) = stmt[Len(stmt)]
    ELSE -1

\* result.rows.length: the engine returns the rows selected, up to the LIMIT
\* clause of the statement
Returned(stmt, available) ==
    IF LimitClause(stmt) >= 0 /\ LimitClause(stmt) < available
    THEN LimitClause(stmt)
    ELSE available

PgCalls ==
    {[tool |-> "pg_query", query |-> q, limit |-> DefaultLimit, analyze |-> FALSE] :
        q \in Queries \cup LimitQueries}
    \cup
    {[tool |-> "pg_explain", query |-> q, limit |-> 0, analyze |-> a] :
        q \in Queries, a \in BOOLEAN}

\* the handler up to its first await: the gate, and the reply of a denied query
PgCallTool ==
    /\ server = "postgres"
    /\ pgPc = "idle"
    /\ \E call \in PgCalls :
          \E verdict \in {PgGate(call.tool, call.query)} :
              /\ pgCall' = call
              /\ IF verdict.allowed
                 THEN /\ pgPc' = "connect"
                      /\ pgResp' = NoReply
                 ELSE /\ pgPc' = "done"
                      /\ pgResp' = Reply("error", verdict.message, verdict.keyword, TRUE)
    /\ pgTrace' = <<>>
    /\ pgOut' = NoPgOut
    /\ UNCHANGED <<server, pgHeld, pgFailed, sqVars, fsVars, obVars, stVars, rlVars, ldVars, obRead>>

\* const client = await pool.connect(): a failure is caught by the handler's
\* outer catch
PgConnect ==
    /\ server = "postgres"
    /\ pgPc = "connect"
    /\ \E ok \in BOOLEAN :
          IF ok
          THEN /\ pgHeld' = TRUE
               /\ pgTrace' = Append(pgTrace, PgEvent("connect", <<>>))
               /\ pgPc' = "begin"
               /\ pgResp' = pgResp
          ELSE /\ pgHeld' = pgHeld
               /\ pgTrace' = pgTrace
               /\ pgPc' = "done"
               /\ pgResp' = Reply("error", "Database error: ", <<>>, TRUE)
    /\ UNCHANGED <<server, pgCall, pgFailed, pgOut, sqVars, fsVars, obVars, stVars, rlVars, ldVars, obRead>>

\* a try block without the catch clause: a failed statement goes straight to
\* the finally clause
PgSendNoRollback(at, text, next) ==
    /\ server = "postgres"
    /\ pgPc = at
    /\ pgTrace' = Append(pgTrace, PgEvent("query", text))
    /\ \E ok \in BOOLEAN :
          IF ok
          THEN pgPc' = next /\ pgFailed' = pgFailed
          ELSE pgPc' = "release" /\ pgFailed' = TRUE
    /\ UNCHANGED <<server, pgCall, pgHeld, pgResp, sqVars, fsVars, obVars, stVars, rlVars, ldVars, obRead>>

\* one awaited client.query(text) of the try block
PgSend(at, text, next) ==
    /\ server = "postgres"
    /\ pgPc = at
    /\ pgTrace' = Append(pgTrace, PgEvent("query", text))
    /\ \E ok \in BOOLEAN :
          IF ok
          THEN pgPc' = next /\ pgFailed' = pgFailed
          ELSE pgPc' = "rollback" /\ pgFailed' = TRUE
    /\ UNCHANGED <<server, pgCall, pgHeld, pgResp, sqVars, fsVars, obVars, stVars, rlVars, ldVars, obRead>>

PgBegin ==
    PgSend("begin", <<"BEGIN TRANSACTION READ ONLY">>, "query") /\ UNCHANGED pgOut

\* const result = await client.query(safeQuery): result.rows
PgQuery ==
    /\ PgSend("query", PgStatement(pgCall), "commit")
    /\ IF pgPc' = "commit" /\ pgCall.tool = "pg_query"
       THEN \E n \in PgRowCounts :
                pgOut' = [available |-> n, rowCount |-> Returned(PgStatement(pgCall), n)]
       ELSE pgOut' = NoPgOut

PgCommit == PgSend("commit", <<"COMMIT">>, "release") /\ UNCHANGED pgOut

\* catch (error) { await client.query('ROLLBACK'); throw error; }: whether the
\* ROLLBACK succeeds or throws, an error leaves the try statement
PgRollback ==
    /\ server = "postgres"
    /\ pgPc = "rollback"
    /\ pgTrace' = Append(pgTrace, PgEvent("query", <<"ROLLBACK">>))
    /\ pgPc' = "release"
    /\ UNCHANGED <<server, pgCall, pgHeld, pgFailed, pgResp, pgOut, sqVars, fsVars, obVars, stVars, rlVars, ldVars, obRead>>

\* finally { client.release(); }, then the return or the outer catch
PgRelease ==
    /\ server = "postgres"
    /\ pgPc = "release"
    /\ pgTrace' = Append(pgTrace, PgEvent("release", <<>>))
    /\ pgHeld' = FALSE
    /\ pgResp' = IF pgFailed
                 THEN Reply("error", "Database error: ", <<>>, TRUE)
                 ELSE Reply("result", "", <<>>, FALSE)
    /\ pgPc' = "done"
    /\ UNCHANGED <<server, pgCall, pgFailed, pgOut, sqVars, fsVars, obVars, stVars, rlVars, ldVars, obRead>>

PgReply ==
    /\ server = "postgres"
    /\ pgPc = "done"
    /\ pgPc' = "idle"
    /\ pgCall' = NoCall
    /\ pgTrace' = <<>>
    /\ pgFailed' = FALSE
    /\ pgResp' = NoReply
    /\ pgOut' = NoPgOut
    /\ UNCHANGED <<server, pgHeld, sqVars, fsVars, obVars, stVars, rlVars, ldVars, obRead>>

NextPostgres ==
    \/ PgCallTool
    \/ PgConnect
    \/ PgBegin
    \/ PgQuery
    \/ PgCommit
    \/ PgRollback
    \/ PgRelease
    \/ PgReply

(***************************************************************************)
(* node:path on POSIX: resolve and relative, computed on the characters.   *)
(***************************************************************************)
Cwd == <<"/">>    \* process.cwd() of the server

IsAbsolute(p) == p # <<>> /\ p[1] = "/"

\* p.split('/')
RECURSIVE SplitPath(_)
SplitPath(p) ==
    LET slashes == {i \in 1..Len(p) : p[i] = "/"}
    IN  IF slashes = {} THEN <<p>>
        ELSE LET i == CHOOSE k \in slashes : \A j \in slashes : k <= j
             IN  <<SubSeq(p, 1, i - 1)>> \o SplitPath(SubSeq(p, i + 1, Len(p)))

\* segs.join('/')
RECURSIVE JoinPath(_)
JoinPath(segs) ==
    IF segs = <<>> THEN <<>>
    ELSE IF Len(segs) = 1 THEN segs[1]
    ELSE segs[1] \o <<"/">> \o JoinPath(Tail(segs))

\* normalizeString of an absolute path: empty and '.' segments are dropped,
\* '..' removes the segment before it and is dropped at the root
RECURSIVE NormalizeString(_, _)
NormalizeString(segs, acc) ==
    IF segs = <<>> THEN acc
    ELSE LET seg == Head(segs)
         IN  IF seg = <<>> \/ seg = <<".">>
             THEN NormalizeString(Tail(segs), acc)
             ELSE IF seg = <<".", ".">>
             THEN NormalizeString(Tail(segs),
                                  IF acc = <<>> THEN acc ELSE SubSeq(acc, 1, Len(acc) - 1))
             ELSE NormalizeString(Tail(segs), Append(acc, seg))

\* path.resolve(from, to): the arguments are taken from the right until one is
\* absolute, the working directory last
PathResolve(from, to) ==
    LET chain == IF IsAbsolute(to) THEN to
                 ELSE IF IsAbsolute(from) THEN from \o <<"/">> \o to
                 ELSE Cwd \o <<"/">> \o from \o <<"/">> \o to
    IN  <<"/">> \o JoinPath(NormalizeString(SplitPath(chain), <<>>))

\* the segments of a resolved path
Segments(p) == NormalizeString(SplitPath(p), <<>>)

\* path.relative(from, to)
PathRelative(from, to) ==
    LET f == Segments(PathResolve(<<>>, from))
        t == Segments(PathResolve(<<>>, to))
        same == {n \in 0..Len(f) : n <= Len(t) /\ SubSeq(f, 1, n) = SubSeq(t, 1, n)}
        common == CHOOSE n \in same : \A m \in same : m <= n
        up == [i \in 1..(Len(f) - common) |-> <<".", ".">>]
    IN  JoinPath(up \o SubSeq(t, common + 1, Len(t)))

(***************************************************************************)
(* filesystem-mcp: resolvePath.                                            *)
(***************************************************************************)
AccessDenied == "Access denied: path is outside root directory"

\* inputPath.replace(/^~/, homedir())
ExpandTilde(inputPath) ==
    IF inputPath # <<>> /\ inputPath[1] = "~" THEN home \o Tail(inputPath) ELSE inputPath

ResolvePath(inputPath) ==
    LET expanded == ExpandTilde(inputPath)
        resolved == PathResolve(FS_ROOT, expanded)
        normalizedRoot == PathResolve(<<>>, FS_ROOT)
        normalizedPath == PathResolve(<<>>, resolved)
    IN  IF ~StartsWith(normalizedPath, normalizedRoot)
        THEN [ok |-> FALSE, path |-> <<>>]
        ELSE [ok |-> TRUE, path |-> normalizedPath]

(***************************************************************************)
(* filesystem-mcp: the tool calls and the resource read.  A handler runs   *)
(* to its reply in one action; fsIo records the file and directory         *)
(* operations it performed, in order, each with the absolute path the      *)
(* operating system is given.  What is on disk at that path (a file, a     *)
(* directory, nothing) is the environment's choice.                        *)
(***************************************************************************)
PathChars == {"/", ".", "r", "~"}

RECURSIVE PathsOfLen(_)
PathsOfLen(n) ==
    IF n = 0 THEN {<<>>}
    ELSE {p \o <<c>> : p \in PathsOfLen(n - 1), c \in PathChars}

Paths == UNION {PathsOfLen(n) : n \in 0..MaxPathLen}

\* the paths of a read_files call are taken from these
SamplePaths == {<<"r">>, <<"/", "r", "r">>, <<".", ".">>}

\* glob patterns: everything below the directory searched, and the entries of
\* its parent
GlobPatterns == {<<"*", "*", "/", "*">>, <<".", ".", "/", "*">>}

OnDisk == {"file", "directory", "nothing"}

Io(op, path) == [op |-> op, path |-> path]

FsResult(io, kind, message) ==
    [io |-> io, reply |-> Reply(kind, message, <<>>, FALSE)]

\* the directory a fast-glob pattern is read from: the segments before the
\* first one that holds a wildcard, resolved against cwd
RECURSIVE StaticSegments(_)
StaticSegments(segs) ==
    IF segs = <<>> \/ \E i \in 1..Len(Head(segs)) : Head(segs)[i] = "*" THEN <<>>
    ELSE <<Head(segs)>> \o StaticSegments(Tail(segs))

GlobBase(pattern, cwd) ==
    PathResolve(cwd, JoinPath(StaticSegments(SplitPath(pattern))))

\* resolvePath, access and readFileContent of one path (read_file, and each
\* path of read_files)
ReadOne(path, disk) ==
    LET r == ResolvePath(path)
    IN  IF ~r.ok THEN FsResult(<<>>, "error", AccessDenied)
        ELSE IF disk = "nothing"
        THEN FsResult(<<Io("access", r.path)>>, "error", "ENOENT")
        ELSE IF disk = "directory"
        THEN FsResult(<<Io("access", r.path), Io("stat", r.path), Io("readFile", r.path)>>,
                      "error", "EISDIR")
        ELSE FsResult(<<Io("access", r.path), Io("stat", r.path), Io("readFile", r.path)>>,
                      "result", "")

RECURSIVE ReadEach(_, _)
ReadEach(paths, disk) ==
    IF paths = <<>> THEN <<>>
    ELSE ReadOne(Head(paths), disk).io \o ReadEach(Tail(paths), disk)

\* paths.slice(0, 10) with a try/catch around each path: the call succeeds
ReadFiles(paths, disk) == FsResult(ReadEach(paths, disk), "result", "")

\* resolvePath(path || '.') and readdir: list_directory (listDir) and tree
\* (buildTree)
ScanDirectory(path, disk) ==
    LET r == ResolvePath(IF path = <<>> THEN <<".">> ELSE path)
    IN  IF ~r.ok THEN FsResult(<<>>, "error", AccessDenied)
        ELSE IF disk = "directory"
        THEN FsResult(<<Io("readdir", r.path)>>, "result", "")
        ELSE FsResult(<<Io("readdir", r.path)>>, "error",
                      IF disk = "file" THEN "ENOTDIR" ELSE "ENOENT")

\* searchFiles / searchContent: basePath, then fast-glob from it; searchContent
\* reads the files found
Search(pattern, searchPath, disk, readContent) ==
    LET r == IF searchPath # <<>> THEN ResolvePath(searchPath)
             ELSE [ok |-> TRUE, path |-> FS_ROOT]
        base == GlobBase(pattern, r.path)
        found == PathResolve(base, <<"r">>)
    IN  IF ~r.ok THEN FsResult(<<>>, "error", AccessDenied)
        ELSE IF disk # "directory"
        THEN FsResult(<<Io("readdir", base)>>, "result", "")
        ELSE IF readContent
        THEN FsResult(<<Io("readdir", base), Io("stat", found), Io("readFile", found)>>,
                      "result", "")
        ELSE FsResult(<<Io("readdir", base)>>, "result", "")

GetInfo(path, disk) ==
    LET r == ResolvePath(path)
    IN  IF ~r.ok THEN FsResult(<<>>, "error", AccessDenied)
        ELSE IF disk = "nothing"
        THEN FsResult(<<Io("stat", r.path)>>, "error", "ENOENT")
        ELSE FsResult(<<Io("stat", r.path)>>, "result", "")

\* the ReadResourceRequestSchema handler: it has no try/catch, an error is
\* thrown to the transport
ReadResource(scheme, rest, disk) ==
    LET filePath == rest
        r == ResolvePath(PathRelative(FS_ROOT, filePath))
        target == PathResolve(<<>>, filePath)
    IN  IF scheme # "file://" THEN FsResult(<<>>, "thrown", "Invalid URI scheme")
        ELSE IF ~r.ok THEN FsResult(<<>>, "thrown", AccessDenied)
        ELSE IF disk = "nothing" \/ filePath = <<>>
        THEN FsResult(<<Io("stat", target)>>, "thrown", "ENOENT")
        ELSE IF disk = "directory"
        THEN FsResult(<<Io("stat", target), Io("readdir", target)>>, "result", "")
        ELSE FsResult(<<Io("stat", target), Io("stat", target), Io("readFile", target)>>,
                      "result", "")

\* what is on disk where the handler looks: a file (its size and the offsets
\* of its zero bytes) or a directory or glob (the number of entries, files or
\* matching lines it yields)
NoDisk == [size |-> 0, zeros |-> {}, total |-> 0]

\* what readFileContent, listDir, searchFiles or searchContent returned
NoFsOut ==
    [content |-> "", bytes |-> 0, truncated |-> FALSE, binary |-> FALSE,
     items |-> <<>>, notice |-> FALSE]

NoFsCall == [tool |-> "none", path |-> <<>>, paths |-> <<>>, pattern |-> <<>>]

FsCall(tool, path, paths, pattern) ==
    [tool |-> tool, path |-> path, paths |-> paths, pattern |-> pattern]

\* a request is answered: the handler's I/O and reply
FsAnswer(call, result) ==
    /\ fsCall' = call
    /\ \E done \in {result} : fsIo' = done.io /\ fsResp' = done.reply
    /\ fsPc' = "done"
    /\ fsDisk' = NoDisk
    /\ fsOut' = NoFsOut
    /\ UNCHANGED <<server, FS_ROOT, home, fsStat, sqVars, pgVars, obVars, stVars, rlVars, ldVars, obRead>>

FsReadFile ==
    /\ server = "filesystem"
    /\ fsPc = "idle"
    /\ \E path \in Paths, disk \in OnDisk :
           FsAnswer(FsCall("read_file", path, <<>>, <<>>), ReadOne(path, disk))

FsReadFiles ==
    /\ server = "filesystem"
    /\ fsPc = "idle"
    /\ \E p1 \in SamplePaths, p2 \in SamplePaths, n \in 1..2, disk \in OnDisk :
           LET paths == SubSeq(<<p1, p2>>, 1, n)
           IN  FsAnswer(FsCall("read_files", <<>>, paths, <<>>), ReadFiles(paths, disk))

FsListDirectory ==
    /\ server = "filesystem"
    /\ fsPc = "idle"
    /\ \E path \in Paths, disk \in OnDisk :
           FsAnswer(FsCall("list_directory", path, <<>>, <<>>), ScanDirectory(path, disk))

FsSearchFiles ==
    /\ server = "filesystem"
    /\ fsPc = "idle"
    /\ \E pattern \in GlobPatterns, path \in Paths, disk \in OnDisk :
           FsAnswer(FsCall("search_files", path, <<>>, pattern),
                    Search(pattern, path, disk, FALSE))

FsSearchContent ==
    /\ server = "filesystem"
    /\ fsPc = "idle"
    /\ \E pattern \in GlobPatterns, path \in Paths, disk \in OnDisk :
           FsAnswer(FsCall("search_content", path, <<>>, pattern),
                    Search(pattern, path, disk, TRUE))

FsGetInfo ==
    /\ server = "filesystem"
    /\ fsPc = "idle"
    /\ \E path \in Paths, disk \in OnDisk :
           FsAnswer(FsCall("get_info", path, <<>>, <<>>), GetInfo(path, disk))

FsTree ==
    /\ server = "filesystem"
    /\ fsPc = "idle"
    /\ \E path \in Paths, disk \in OnDisk :
           FsAnswer(FsCall("tree", path, <<>>, <<>>), ScanDirectory(path, disk))

FsReadResource ==
    /\ server = "filesystem"
    /\ fsPc = "idle"
    /\ \E scheme \in {"file://", "http://"}, rest \in Paths, disk \in OnDisk :
           FsAnswer(FsCall("resources/read", rest, <<>>, <<scheme>>),
                    ReadResource(scheme, rest, disk))

FsReply ==
    /\ server = "filesystem"
    /\ fsPc = "done"
    /\ fsPc' = "idle"
    /\ fsCall' = NoFsCall
    /\ fsIo' = <<>>
    /\ fsResp' = NoReply
    /\ fsDisk' = NoDisk
    /\ fsOut' = NoFsOut
    /\ fsStat' = 0
    /\ UNCHANGED <<server, FS_ROOT, home, sqVars, pgVars, obVars, stVars, rlVars, ldVars, obRead>>

NextFilesystem ==
    \/ FsReadFile
    \/ FsReadFiles
    \/ FsListDirectory
    \/ FsSearchFiles
    \/ FsSearchContent
    \/ FsGetInfo
    \/ FsTree
    \/ FsReadResource
    \/ FsReply

(***************************************************************************)
(* filesystem-mcp: the same tool calls, with what is on disk looked into:  *)
(* the size and zero bytes of the file read, and the number of entries,    *)
(* files or matching lines found.  A buffer is its length and the offsets  *)
(* of its zero bytes.                                                      *)
(***************************************************************************)
MAX_FILE_SIZE == 1048576

MAX_RESULTS == 100

SampleSize == 8192

FileSizes == {0, 1, SampleSize, SampleSize + 1, MAX_FILE_SIZE, MAX_FILE_SIZE + 1}

ZeroOffsets == {0, SampleSize - 1, SampleSize, MAX_FILE_SIZE - 1, MAX_FILE_SIZE}

Files ==
    UNION {{[size |-> n, zeros |-> z, total |-> 0] :
               z \in SUBSET {o \in ZeroOffsets : o < n}} : n \in FileSizes}

EntryCounts ==
    {0, 1, MAX_RESULTS - 1, MAX_RESULTS, MAX_RESULTS + 1, MAX_RESULTS + MaxExtraEntries}

Directory(total) == [size |-> 0, zeros |-> {}, total |-> total]

\* the first n bytes of the file: readFile (n the size), or handle.read into
\* Buffer.alloc(n)
ReadBuffer(file, n) ==
    [length |-> IF file.size < n THEN file.size ELSE n,
     zeros |-> {z \in file.zeros : z < n /\ z < file.size}]

\* buffer.slice(0, end)
Slice(buffer, end) ==
    [length |-> IF buffer.length < end THEN buffer.length ELSE end,
     zeros |-> {z \in buffer.zeros : z < end}]

\* a classification that looks at the whole buffer
IsBinaryFileWhole(buffer) == \E i \in buffer.zeros : i < buffer.length

IsBinaryFile(buffer) ==
    \E i \in Slice(buffer, SampleSize).zeros : i < Slice(buffer, SampleSize).length

FileOut(content, bytes, truncated, binary) ==
    [content |-> content, bytes |-> bytes, truncated |-> truncated, binary |-> binary,
     items |-> <<>>, notice |-> FALSE]

\* handle.read(buffer, 0, n, 0) into Buffer.alloc(n): the bytes of the file,
\* and behind them the zero bytes of the allocation, of which the first is
\* recorded
ReadInto(file, n) ==
    [length |-> n,
     zeros |-> {z \in file.zeros : z < n /\ z < file.size} \cup
               (IF file.size < n THEN {file.size} ELSE {})]

\* readFileContent from the size that stat gave on: the file is read as it is
\* at the time of the read
ReadFileContentAt(size, file) ==
    IF size > MAX_FILE_SIZE
    THEN LET fd == ReadInto(file, MAX_FILE_SIZE)
         IN  IF IsBinaryFile(fd) THEN FileOut("[Binary file]", 0, FALSE, TRUE)
             ELSE FileOut("utf-8", fd.length, TRUE, FALSE)
    ELSE LET buffer == ReadBuffer(file, file.size)
         IN  IF IsBinaryFile(buffer) THEN FileOut("[Binary file]", 0, FALSE, TRUE)
             ELSE FileOut("utf-8", buffer.length, FALSE, FALSE)

\* readFileContent of a file that no one changes meanwhile
ReadFileContent(file) == ReadFileContentAt(file.size, file)

FsDone(io, kind, message, out) ==
    [io |-> io, reply |-> Reply(kind, message, <<>>, FALSE), out |-> out]

\* case 'read_file' on a file that exists
ReadFileWith(path, out) ==
    LET r == ResolvePath(path)
        io == <<Io("access", r.path), Io("stat", r.path), Io("readFile", r.path)>>
    IN  IF ~r.ok THEN FsDone(<<>>, "error", AccessDenied, NoFsOut)
        ELSE IF out.binary
        THEN FsDone(io, "result", "[Binary file - cannot display]", out)
        ELSE IF out.truncated
        THEN FsDone(io, "result", "*File truncated at *", out)
        ELSE FsDone(io, "result", "", out)

ReadFile(path, file) == ReadFileWith(path, ReadFileContent(file))

Entries(total) == [i \in 1..total |-> i]

\* the loop of scanDir over the entries of one directory, and the loop of
\* searchContent over the matching lines: push, then stop at MAX_RESULTS
RECURSIVE PushUntilFull(_, _)
PushUntilFull(entries, results) ==
    IF entries = <<>> THEN results
    ELSE IF Len(Append(results, Head(entries))) >= MAX_RESULTS
    THEN Append(results, Head(entries))
    ELSE PushUntilFull(Tail(entries), Append(results, Head(entries)))

\* files.slice(0, MAX_RESULTS)
SliceResults(files) ==
    SubSeq(files, 1, IF Len(files) < MAX_RESULTS THEN Len(files) ELSE MAX_RESULTS)

ItemsOut(items, notice) ==
    [content |-> "", bytes |-> 0, truncated |-> FALSE, binary |-> FALSE,
     items |-> items, notice |-> notice]

\* entries.length >= MAX_RESULTS ? 'Results limited to ...' : ''
Notice(items, total) == Len(items) >= MAX_RESULTS

\* case 'list_directory', 'search_files' or 'search_content' where the
\* directory or glob yields total entries, files or matching lines
CountTool(tool, path, total) ==
    LET r == IF tool = "list_directory"
             THEN ResolvePath(IF path = <<>> THEN <<".">> ELSE path)
             ELSE IF path # <<>> THEN ResolvePath(path)
             ELSE [ok |-> TRUE, path |-> FS_ROOT]
        items == IF tool = "search_files" THEN SliceResults(Entries(total))
                 ELSE PushUntilFull(Entries(total), <<>>)
        io == IF tool = "search_content" /\ total > 0
              THEN <<Io("readdir", r.path), Io("stat", PathResolve(r.path, <<"r">>)),
                     Io("readFile", PathResolve(r.path, <<"r">>))>>
              ELSE <<Io("readdir", r.path)>>
    IN  IF ~r.ok THEN FsDone(<<>>, "error", AccessDenied, NoFsOut)
        ELSE IF items = <<>>
        THEN FsDone(io, "result", "empty", ItemsOut(items, FALSE))
        ELSE IF Notice(items, total)
        THEN FsDone(io, "result", "*Results limited to *", ItemsOut(items, TRUE))
        ELSE FsDone(io, "result", "", ItemsOut(items, FALSE))

FsAnswerWith(call, disk, result) ==
    /\ fsCall' = call
    /\ fsDisk' = disk
    /\ \E done \in {result} :
          fsIo' = done.io /\ fsResp' = done.reply /\ fsOut' = done.out
    /\ fsPc' = "done"
    /\ UNCHANGED <<server, FS_ROOT, home, fsStat, sqVars, pgVars, obVars, stVars, rlVars, ldVars, obRead>>

FsReadFileContent ==
    /\ server = "filesystem"
    /\ fsPc = "idle"
    /\ \E path \in SamplePaths, file \in Files :
          FsAnswerWith(FsCall("read_file", path, <<>>, <<>>), file, ReadFile(path, file))

FsListEntries ==
    /\ server = "filesystem"
    /\ fsPc = "idle"
    /\ \E path \in {<<>>, <<"r">>}, total \in EntryCounts :
          FsAnswerWith(FsCall("list_directory", path, <<>>, <<>>), Directory(total),
                       CountTool("list_directory", path, total))

FsSearchFilesFound ==
    /\ server = "filesystem"
    /\ fsPc = "idle"
    /\ \E path \in {<<>>, <<"r">>}, total \in EntryCounts :
          FsAnswerWith(FsCall("search_files", path, <<>>, <<"*", "*", "/", "*">>),
                       Directory(total), CountTool("search_files", path, total))

FsSearchContentFound ==
    /\ server = "filesystem"
    /\ fsPc = "idle"
    /\ \E path \in {<<>>, <<"r">>}, total \in EntryCounts :
          FsAnswerWith(FsCall("search_content", path, <<>>, <<"*", "*", "/", "*">>),
                       Directory(total), CountTool("search_content", path, total))

\* readFileContent awaits stat, then the read: another process can write the
\* file in between.  case 'read_file' up to the await of stat
FsStatFile ==
    /\ server = "filesystem"
    /\ fsPc = "idle"
    /\ \E path \in SamplePaths, file \in Files :
          /\ ResolvePath(path).ok
          /\ fsCall' = FsCall("read_file", path, <<>>, <<>>)
          /\ fsIo' = <<Io("access", ResolvePath(path).path), Io("stat", ResolvePath(path).path)>>
          /\ fsDisk' = file
          /\ fsStat' = file.size
    /\ fsPc' = "stat"
    /\ UNCHANGED <<server, FS_ROOT, home, fsResp, fsOut, sqVars, pgVars, obVars, stVars, rlVars, ldVars, obRead>>

\* another process writes the file
FsFileChanges ==
    /\ server = "filesystem"
    /\ fsPc = "stat"
    /\ \E file \in Files : file # fsDisk /\ fsDisk' = file
    /\ UNCHANGED <<server, FS_ROOT, home, fsPc, fsCall, fsIo, fsResp, fsOut, fsStat,
                   sqVars, pgVars, obVars, stVars, rlVars, ldVars, obRead>>

\* the read, and the rest of the handler
FsReadStated ==
    /\ server = "filesystem"
    /\ fsPc = "stat"
    /\ \E done \in {ReadFileWith(fsCall.path, ReadFileContentAt(fsStat, fsDisk))} :
          fsIo' = done.io /\ fsResp' = done.reply /\ fsOut' = done.out
    /\ fsPc' = "done"
    /\ UNCHANGED <<server, FS_ROOT, home, fsCall, fsDisk, fsStat,
                   sqVars, pgVars, obVars, stVars, rlVars, ldVars, obRead>>

NextConcurrentRead ==
    \/ FsStatFile
    \/ FsFileChanges
    \/ FsReadStated
    \/ FsReply

NextContent ==
    \/ FsReadFileContent
    \/ FsListEntries
    \/ FsSearchFilesFound
    \/ FsSearchContentFound
    \/ FsReply

(***************************************************************************)
(* obsidian-mcp: the note cache.  refreshCache and every reader of the     *)
(* cache are synchronous, and every reader calls refreshCache first: a     *)
(* tool call is one step.  Between two calls the vault changes and time    *)
(* passes.  A note is cached with its path, title, links and backlinks.    *)
(***************************************************************************)
CACHE_TTL == 30000

\* the notes of the vault in the order getAllMarkdownFiles lists them
NoteOrder == << <<"a">>, <<"B">> >>

NoteNames == {NoteOrder[i] : i \in 1..Len(NoteOrder)}

\* the wiki links a note's body may hold, in the order extractLinks finds them
LinkOrder == << <<"a">>, <<"b">> >>

LinkTexts == {LinkOrder[i] : i \in 1..Len(LinkOrder)}

NoFile == [present |-> FALSE, numberTitle |-> FALSE, links |-> {}]

\* a markdown file: its frontmatter gives no title, or a number as title
\* (title: 2024), and its body holds wiki links
NoteFiles ==
    {[present |-> TRUE, numberTitle |-> t, links |-> l] :
        t \in BOOLEAN, l \in SUBSET LinkTexts}

\* [...new Set(links)], in order of appearance
RECURSIVE ExtractLinks(_, _)
ExtractLinks(links, order) ==
    IF order = <<>> THEN <<>>
    ELSE IF Head(order) \in links
    THEN <<Head(order)>> \o ExtractLinks(links, Tail(order))
    ELSE ExtractLinks(links, Tail(order))

\* frontmatter.title || basename(filePath, '.md')
ParseNote(name, file) ==
    [path |-> name,
     title |-> IF file.numberTitle THEN [type |-> "number", value |-> <<>>]
               ELSE [type |-> "string", value |-> name],
     links |-> ExtractLinks(file.links, LinkOrder),
     backlinks |-> <<>>]

\* first pass: every file listed is parsed and set, in order
RECURSIVE FirstPass(_, _)
FirstPass(files, order) ==
    IF order = <<>> THEN <<>>
    ELSE IF files[Head(order)].present
    THEN <<ParseNote(Head(order), files[Head(order)])>> \o FirstPass(files, Tail(order))
    ELSE FirstPass(files, Tail(order))

\* second pass, at note i, link j of it, target k: title.toLowerCase() throws
\* on a title that is not a string
RECURSIVE SecondPass(_, _, _, _)
SecondPass(cache, i, j, k) ==
    IF i > Len(cache) THEN [cache |-> cache, thrown |-> FALSE]
    ELSE IF j > Len(cache[i].links) THEN SecondPass(cache, i + 1, 1, 1)
    ELSE IF k > Len(cache) THEN SecondPass(cache, i, j + 1, 1)
    ELSE IF cache[k].title.type # "string" THEN [cache |-> cache, thrown |-> TRUE]
    ELSE IF \/ ToLowerCase(cache[k].title.value) = ToLowerCase(cache[i].links[j])
            \/ ToLowerCase(cache[k].path) = ToLowerCase(cache[i].links[j])
    THEN SecondPass([cache EXCEPT ![k].backlinks = Append(@, cache[i].path)], i, j, k + 1)
    ELSE SecondPass(cache, i, j, k + 1)

\* a refresh that still holds the cache for fresh when its lifetime has
\* just run out
RefreshCacheInclusive(now, last, cache, files, listed) ==
    IF now - last <= CACHE_TTL /\ Len(cache) > 0
    THEN [cache |-> cache, last |-> last, thrown |-> FALSE]
    ELSE IF ~listed THEN [cache |-> <<>>, last |-> last, thrown |-> TRUE]
    ELSE LET second == SecondPass(FirstPass(files, NoteOrder), 1, 1, 1)
         IN  [cache |-> second.cache,
              last |-> IF second.thrown THEN last ELSE now,
              thrown |-> second.thrown]

\* the cache and its time stamp as a call finds them
NoBefore == [cache |-> <<>>, last |-> 0]

\* readNote has not been called
NoRead == [tool |-> "none", path |-> <<>>, file |-> <<>>, result |-> "none", chars |-> 0]

\* refreshCache(); listed: getAllMarkdownFiles returned (readdirSync can throw)
RefreshCache(now, last, cache, files, listed) ==
    IF now - last < CACHE_TTL /\ Len(cache) > 0
    THEN [cache |-> cache, last |-> last, thrown |-> FALSE]
    ELSE IF ~listed THEN [cache |-> <<>>, last |-> last, thrown |-> TRUE]
    ELSE LET second == SecondPass(FirstPass(files, NoteOrder), 1, 1, 1)
         IN  [cache |-> second.cache,
              last |-> IF second.thrown THEN last ELSE now,
              thrown |-> second.thrown]

\* a tool call: refreshCache(), then the loop over noteCache; an error thrown
\* by refreshCache leaves the handler
ObCallTool ==
    /\ server = "obsidian"
    /\ obPc = "idle"
    /\ \E listed \in BOOLEAN :
          \E r \in {RefreshCache(clock, lastCacheUpdate, noteCache, vault, listed)} :
              /\ noteCache' = r.cache
              /\ lastCacheUpdate' = r.last
              /\ obSeen' = IF r.thrown THEN <<>> ELSE r.cache
              /\ obResp' = IF r.thrown THEN "thrown" ELSE "result"
    /\ obBefore' = [cache |-> noteCache, last |-> lastCacheUpdate]
    /\ obPc' = "done"
    /\ UNCHANGED <<server, vault, clock, sqVars, pgVars, fsVars, stVars, rlVars, ldVars, obRead>>

ObReply ==
    /\ server = "obsidian"
    /\ obPc = "done"
    /\ obPc' = "idle"
    /\ obSeen' = <<>>
    /\ obResp' = "none"
    /\ obBefore' = NoBefore
    /\ obRead' = NoRead
    /\ UNCHANGED <<server, vault, clock, noteCache, lastCacheUpdate, sqVars, pgVars, fsVars,
                   stVars, rlVars, ldVars>>

\* between two calls a note is written, changed or removed
VaultChanges(written) ==
    /\ server = "obsidian"
    /\ obPc = "idle"
    /\ \E name \in NoteNames, file \in written \cup {NoFile} :
          /\ file # vault[name]
          /\ vault' = [vault EXCEPT ![name] = file]
    /\ UNCHANGED <<server, clock, noteCache, lastCacheUpdate, obPc, obSeen, obResp, obBefore,
                   sqVars, pgVars, fsVars, stVars, rlVars, ldVars, obRead>>

ObVaultChanges == VaultChanges(NoteFiles)

\* between two calls time passes: just less than the lifetime of the cache,
\* or all of it
ObTimePasses ==
    /\ server = "obsidian"
    /\ obPc = "idle"
    /\ \E d \in {CACHE_TTL - 1, CACHE_TTL} :
          /\ clock + d <= MaxPeriods * CACHE_TTL
          /\ clock' = clock + d
    /\ UNCHANGED <<server, vault, noteCache, lastCacheUpdate, obPc, obSeen, obResp, obBefore,
                   sqVars, pgVars, fsVars, stVars, rlVars, ldVars, obRead>>

NextObsidian ==
    \/ ObCallTool
    \/ ObReply
    \/ ObVaultChanges
    \/ ObTimePasses

(***************************************************************************)
(* obsidian-mcp: readNote.  A path is a sequence of characters, with the   *)
(* extension '.md' as one element; the note named a is the file a.md       *)
(* directly under VAULT_PATH.                                              *)
(***************************************************************************)
VAULT_PATH == <<"/", "v">>

MAX_CONTENT_LENGTH == 10000

Md == ".md"

\* markdown files outside the vault
OutsideFiles == { <<"/", "o", "/", "x", Md>>, <<"/", "v", "x", Md>> }

\* the path arguments readNote is given: a note, a note with its extension,
\* a title in another case, a note that does not exist, a path that climbs
\* out of the vault, absolute paths outside and inside the vault, a sibling
\* of the vault, the empty path
NotePaths ==
    { <<"a">>, <<"a", Md>>, <<"b">>, <<"z">>,
      <<".", ".", "/", "o", "/", "x">>,
      <<"/", "o", "/", "x", Md>>,
      <<"/", "v", "/", "a">>,
      <<".", ".", "/", "v", "x">>,
      <<>> }

\* the lengths of the files read
ContentLengths == {0, MAX_CONTENT_LENGTH + MaxExtraChars}

\* existsSync(fullPath)
ExistsSync(fullPath, files) ==
    LET target == PathResolve(<<>>, fullPath)
    IN  \/ target \in OutsideFiles
        \/ \E name \in NoteNames :
              files[name].present /\ target = VAULT_PATH \o <<"/">> \o name \o <<Md>>

\* the loop over noteCache that looks the note up by its title or its file
\* name: title.toLowerCase() throws on a title that is not a string
RECURSIVE FindByTitle(_, _, _)
FindByTitle(cache, i, notePath) ==
    IF i > Len(cache) THEN [thrown |-> FALSE, found |-> FALSE, path |-> <<>>]
    ELSE IF cache[i].title.type # "string"
    THEN [thrown |-> TRUE, found |-> FALSE, path |-> <<>>]
    ELSE IF \/ ToLowerCase(cache[i].title.value) = ToLowerCase(notePath)
            \/ ToLowerCase(cache[i].path) = ToLowerCase(notePath)
    THEN [thrown |-> FALSE, found |-> TRUE, path |-> cache[i].path \o <<Md>>]
    ELSE FindByTitle(cache, i + 1, notePath)

ReadResult(tool, notePath, file, result, chars) ==
    [tool |-> tool, path |-> notePath, file |-> file, result |-> result, chars |-> chars]

\* readNote(notePath) after refreshCache(); length: the length of the file
\* read, readable: readFileSync and parseNote do not throw
ReadNote(tool, notePath, cache, files, length, readable) ==
    LET joined == IF ~StartsWith(notePath, <<"/">>)
                  THEN PathResolve(VAULT_PATH, notePath)
                  ELSE notePath
        withMd == IF joined # <<>> /\ joined[Len(joined)] = Md THEN joined
                  ELSE Append(joined, Md)
        byTitle == FindByTitle(cache, 1, notePath)
        fullPath == IF ~ExistsSync(withMd, files) /\ byTitle.found
                    THEN PathResolve(VAULT_PATH, byTitle.path)
                    ELSE withMd
    IN  IF ~ExistsSync(withMd, files) /\ byTitle.thrown
        THEN ReadResult(tool, notePath, <<>>, "thrown", 0)
        ELSE IF ~ExistsSync(fullPath, files)
        THEN ReadResult(tool, notePath, <<>>, "null", 0)
        ELSE IF ~readable
        THEN ReadResult(tool, notePath, <<>>, "null", 0)
        ELSE ReadResult(tool, notePath, PathResolve(<<>>, fullPath), "content",
                        IF length < MAX_CONTENT_LENGTH THEN length ELSE MAX_CONTENT_LENGTH)

\* case 'read_note', case 'get_backlinks' and the ReadResource handler
ObReadNote ==
    /\ server = "obsidian"
    /\ obPc = "idle"
    /\ \E tool \in {"read_note", "get_backlinks", "resource"}, notePath \in NotePaths,
          length \in ContentLengths, readable \in BOOLEAN, listed \in BOOLEAN :
          /\ ~readable => length = 0
          /\ \E r \in {RefreshCache(clock, lastCacheUpdate, noteCache, vault, listed)} :
                /\ noteCache' = r.cache
                /\ lastCacheUpdate' = r.last
                /\ obSeen' = IF r.thrown THEN <<>> ELSE r.cache
                /\ obRead' = IF r.thrown THEN ReadResult(tool, notePath, <<>>, "thrown", 0)
                             ELSE ReadNote(tool, notePath, r.cache, vault, length, readable)
                /\ obResp' = IF obRead'.result = "thrown" THEN "thrown" ELSE "result"
    /\ obBefore' = [cache |-> noteCache, last |-> lastCacheUpdate]
    /\ obPc' = "done"
    /\ UNCHANGED <<server, vault, clock, sqVars, pgVars, fsVars, stVars, rlVars, ldVars>>

\* between two calls a note without links is written, or a note is removed
ObNoteWritten == VaultChanges({file \in NoteFiles : file.links = {}})

NextReadNote ==
    \/ ObReadNote
    \/ ObReply
    \/ ObNoteWritten

(***************************************************************************)
(* filesystem-mcp: listDir over a directory tree.  An entry is a file, a   *)
(* directory with its own entries, or something else (a link, a socket);   *)
(* a name is a stem and a number; a path is the names from FS_ROOT down.   *)
(***************************************************************************)
\* if (depth > 10) return
DepthLimit == 10

\* a limit that lets one more level be read
TooDeepByOne(depth) == depth > DepthLimit + 1

TooDeep(depth) == depth > DepthLimit

\* sample names that ig.ignores() matches against DEFAULT_IGNORES, at any
\* level of the path
IgnoredStems == {"node_modules", ".git", "build", ".env", "debug.log"}

ShouldIgnore(relPath) == \E i \in 1..Len(relPath) : relPath[i][1] \in IgnoredStems

FileEntry(stem, i) == [name |-> <<stem, i>>, kind |-> "file", entries |-> <<>>]

DirEntry(stem, i, entries) == [name |-> <<stem, i>>, kind |-> "directory", entries |-> entries]

OtherEntry(stem, i) == [name |-> <<stem, i>>, kind |-> "other", entries |-> <<>>]

\* n files side by side
Wide(stem, n) == [i \in 1..n |-> FileEntry(stem, i)]

\* directories nested n deep, the innermost holding one file
RECURSIVE Chain(_)
Chain(n) ==
    IF n = 0 THEN <<FileEntry("leaf", 0)>>
    ELSE <<DirEntry("c", n, Chain(n - 1))>>

\* the values of MAX_RESULTS the listing runs under: small ones, and the default
Caps == (1..MaxCap) \cup {MAX_RESULTS}

WideCounts == 0..2

ChainDepths == {0, DepthLimit + MaxBeyond}

\* the trees listed: files, a directory of files holding a directory of
\* files, ignored entries, a link, a chain of directories, more files
Tree(n1, n2, n3, chain, n4) ==
    Wide("a", n1)
        \o <<DirEntry("d", 0, Wide("b", n2) \o <<DirEntry("e", 0, Wide("c", n3))>>)>>
        \o <<DirEntry("node_modules", 0, Wide("m", 1)), FileEntry(".env", 0),
             OtherEntry("link", 0)>>
        \o (IF chain = 0 THEN <<>> ELSE Chain(chain))
        \o Wide("z", n4)

Starts == { <<>>, << <<"s", 0>> >>, << <<"build", 0>> >> }

NoScan == [results |-> <<>>, log |-> <<>>]

\* results.push({ name, path, type, size })
Push(acc, entry, relPath) ==
    [results |-> Append(acc.results, [name |-> entry.name, path |-> relPath, type |-> entry.kind]),
     log |-> Append(acc.log, [op |-> "push", path |-> relPath])]

\* scanDir(currentPath, depth): ScanDir up to readdir, ScanEntries the loop
\* over the entries from the i-th on
RECURSIVE ScanDir(_, _, _, _, _, _)
RECURSIVE ScanEntries(_, _, _, _, _, _, _)
ScanEntries(entries, i, currentPath, depth, recursive, max, acc) ==
    IF i > Len(entries) THEN acc
    ELSE LET entry == entries[i]
             relPath == Append(currentPath, entry.name)
         IN  IF ShouldIgnore(relPath)
             THEN ScanEntries(entries, i + 1, currentPath, depth, recursive, max, acc)
             ELSE LET pushed == Push(acc, entry, relPath)
                      after ==
                          IF entry.kind = "directory"
                          THEN IF recursive /\ Len(pushed.results) < max
                               THEN ScanDir(entry.entries, relPath, depth + 1, recursive,
                                            max, pushed)
                               ELSE pushed
                          ELSE IF entry.kind = "file" THEN pushed
                          ELSE acc
                  IN  IF Len(after.results) >= max THEN after
                      ELSE ScanEntries(entries, i + 1, currentPath, depth, recursive,
                                       max, after)

ScanDir(entries, currentPath, depth, recursive, max, acc) ==
    IF TooDeep(depth) THEN acc
    ELSE ScanEntries(entries, 1, currentPath, depth, recursive, max,
                     [acc EXCEPT !.log = Append(@, [op |-> "readdir", path |-> currentPath])])

\* listDir(dirPath, recursive)
ListDir(entries, dirPath, recursive, max) ==
    ScanDir(entries, dirPath, 0, recursive, max, NoScan)

LdListDir ==
    /\ server = "listing"
    /\ ldPc = "idle"
    /\ \E n1 \in WideCounts, n2 \in WideCounts, n3 \in {0, 1}, chain \in ChainDepths,
          n4 \in {0, 2}, start \in Starts, recursive \in BOOLEAN :
          /\ ldTree' = Tree(n1, n2, n3, chain, n4)
          /\ ldStart' = start
          /\ ldRecursive' = recursive
          /\ ldOut' = ListDir(Tree(n1, n2, n3, chain, n4), start, recursive, ldMax)
    /\ ldPc' = "done"
    /\ UNCHANGED <<server, ldMax, sqVars, pgVars, fsVars, obVars, stVars, rlVars, obRead>>

LdReply ==
    /\ server = "listing"
    /\ ldPc = "done"
    /\ ldPc' = "idle"
    /\ ldTree' = <<>>
    /\ ldStart' = <<>>
    /\ ldRecursive' = FALSE
    /\ ldOut' = NoScan
    /\ UNCHANGED <<server, ldMax, sqVars, pgVars, fsVars, obVars, stVars, rlVars, obRead>>

NextScan == LdListDir \/ LdReply

(***************************************************************************)
(* Start-up.  The entry point of an adapter runs its top-level statements, *)
(* then main(), which either ends the process with process.exit or         *)
(* connects the server to the transport; only then are tool calls served.  *)
(***************************************************************************)
Adapters == {"sqlite", "filesystem", "obsidian", "linear", "notion", "github"}

NoEnv == [required |-> FALSE, fallback |-> FALSE, resource |-> FALSE]

\* required: the adapter's required variable is set (SQLITE_PATH, FS_ROOT,
\* OBSIDIAN_VAULT, LINEAR_API_KEY, NOTION_API_KEY, GITHUB_TOKEN); fallback:
\* SQLITE_DATABASE is set; resource: the database file, the root directory
\* or the vault that the configuration names exists
Envs == [required : BOOLEAN, fallback : BOOLEAN, resource : BOOLEAN]

\* the configuration constant the module computes from process.env ("": unset)
ConfigOf(adapter, env) ==
    IF adapter = "sqlite"
    THEN IF env.required THEN "SQLITE_PATH"
         ELSE IF env.fallback THEN "SQLITE_DATABASE" ELSE ""
    ELSE IF adapter = "filesystem"
    THEN IF env.required THEN "FS_ROOT" ELSE "process.cwd()"
    ELSE IF adapter = "obsidian"
    THEN IF env.required THEN "OBSIDIAN_VAULT" ELSE "HOME/Documents/Obsidian"
    ELSE IF env.required THEN "key" ELSE ""

StOutcome(pc, exit, diag) == [pc |-> pc, exit |-> exit, diag |-> diag]

\* the top-level statements of the module
LoadModule(adapter, env) ==
    IF adapter \in {"linear", "notion"} /\ ConfigOf(adapter, env) = ""
    THEN StOutcome("exited", 1, 1)
    ELSE StOutcome("main", -1, 0)

\* main() up to server.connect(transport)
Main(adapter, env) ==
    IF adapter = "sqlite"
    THEN IF ConfigOf(adapter, env) = "" THEN StOutcome("exited", 1, 2)
         ELSE IF ~env.resource THEN StOutcome("exited", 1, 1)
         ELSE StOutcome("connected", -1, 0)
    ELSE IF adapter = "filesystem"
    THEN IF ~env.resource THEN StOutcome("exited", 1, 1)
         ELSE StOutcome("connected", -1, 0)
    ELSE IF adapter = "obsidian"
    THEN IF ~env.resource THEN StOutcome("exited", 1, 2)
         ELSE StOutcome("connected", -1, 0)
    ELSE IF adapter = "github"
    THEN IF ConfigOf(adapter, env) = "" THEN StOutcome("exited", 1, 3)
         ELSE StOutcome("connected", -1, 0)
    ELSE StOutcome("connected", -1, 0)

StStep(at, outcome) ==
    /\ server = "starting"
    /\ stPc = at
    /\ stPc' = outcome.pc
    /\ stExit' = outcome.exit
    /\ stDiag' = outcome.diag
    /\ UNCHANGED <<server, stAdapter, stEnv, stServed, sqVars, pgVars, fsVars, obVars, rlVars, ldVars, obRead>>

StLoadModule == StStep("load", LoadModule(stAdapter, stEnv))

StMain == StStep("main", Main(stAdapter, stEnv))

\* a tool call reaches the connected server and is answered
StServe ==
    /\ server = "starting"
    /\ stPc = "connected"
    /\ stServed < MaxServed
    /\ stServed' = stServed + 1
    /\ UNCHANGED <<server, stAdapter, stEnv, stPc, stExit, stDiag,
                   sqVars, pgVars, fsVars, obVars, rlVars, ldVars, obRead>>

NextStartup == StLoadModule \/ StMain \/ StServe

(***************************************************************************)
(* The rate limiter of the API adapters: a sliding window over the times   *)
(* of the accepted calls.  checkLimit and getRemaining are synchronous up  *)
(* to their return, so each call is one step; between calls time passes.   *)
(***************************************************************************)
windowMs == 60000

Limits == 1..MaxLimit

\* a wait that rounds the remaining milliseconds down
FloorSeconds(ms) == ms \div 1000

\* Math.ceil(waitTime / 1000)
CeilSeconds(ms) == (ms + 999) \div 1000

\* this.timestamps.filter(t => now - t < this.windowMs)
InWindow(stamps, now) == SelectSeq(stamps, LAMBDA t : now - t < windowMs)

Checked(stamps, ok, wait) == [timestamps |-> stamps, ok |-> ok, wait |-> wait]

\* a limiter that accepts one call more than the limit
CheckLimitOneMore(stamps, now, limit) ==
    IF Len(InWindow(stamps, now)) > limit
    THEN Checked(InWindow(stamps, now), FALSE,
                 CeilSeconds(windowMs - (now - InWindow(stamps, now)[1])))
    ELSE Checked(Append(InWindow(stamps, now), now), TRUE, 0)

\* checkLimit(): the limiter's timestamps afterwards, resolved (ok) or
\* rejected with 'Rate limit exceeded ... Try again in <wait> seconds'
CheckLimit(stamps, now, limit) ==
    IF Len(InWindow(stamps, now)) >= limit
    THEN Checked(InWindow(stamps, now), FALSE,
                 CeilSeconds(windowMs - (now - InWindow(stamps, now)[1])))
    ELSE Checked(Append(InWindow(stamps, now), now), TRUE, 0)

Max(a, b) == IF a > b THEN a ELSE b

\* a count that does not drop the timestamps that left the window
GetRemainingUnfiltered(stamps, now, limit) ==
    [timestamps |-> stamps, remaining |-> Max(0, limit - Len(stamps))]

\* getRemaining()
GetRemaining(stamps, now, limit) ==
    [timestamps |-> InWindow(stamps, now),
     remaining |-> Max(0, limit - Len(InWindow(stamps, now)))]

NoCheck ==
    [op |-> "none", ok |-> FALSE, wait |-> 0, remaining |-> 0, at |-> 0,
     before |-> <<>>, after |-> "none"]

RlCheckLimit ==
    /\ server = "linear"
    /\ Len(rlAccepted) < MaxAccepted
    /\ \E r \in {CheckLimit(timestamps, rlClock, maxRequests)} :
          /\ timestamps' = r.timestamps
          /\ rlAccepted' = IF r.ok THEN Append(rlAccepted, rlClock) ELSE rlAccepted
          /\ rlLast' = [op |-> "checkLimit", ok |-> r.ok, wait |-> r.wait,
                        remaining |-> 0, at |-> rlClock, before |-> timestamps,
                        after |-> rlLast.op]
    /\ UNCHANGED <<server, maxRequests, rlClock, rlTicks,
                   sqVars, pgVars, fsVars, obVars, stVars, ldVars, obRead>>

RlGetRemaining ==
    /\ server = "linear"
    /\ \E r \in {GetRemaining(timestamps, rlClock, maxRequests)} :
          /\ timestamps' = r.timestamps
          /\ rlLast' = [op |-> "getRemaining", ok |-> TRUE, wait |-> 0,
                        remaining |-> r.remaining, at |-> rlClock, before |-> timestamps,
                        after |-> rlLast.op]
    /\ UNCHANGED <<server, maxRequests, rlClock, rlAccepted, rlTicks,
                   sqVars, pgVars, fsVars, obVars, stVars, ldVars, obRead>>

\* the steps of the clock between two calls, in milliseconds
ClockSteps == {1, 500, windowMs - 1, windowMs}

RlTimePasses ==
    /\ server = "linear"
    /\ rlTicks < MaxTicks
    /\ \E d \in ClockSteps : rlClock' = rlClock + d
    /\ rlTicks' = rlTicks + 1
    /\ rlLast' = [rlLast EXCEPT !.op = "none"]
    /\ UNCHANGED <<server, maxRequests, timestamps, rlAccepted,
                   sqVars, pgVars, fsVars, obVars, stVars, ldVars, obRead>>

\* the caller of a rejected checkLimit waits the seconds the error names
RlWaitsAsTold ==
    /\ server = "linear"
    /\ rlTicks < MaxTicks
    /\ rlLast.op = "checkLimit"
    /\ ~rlLast.ok
    /\ rlClock' = rlClock + 1000 * rlLast.wait
    /\ rlTicks' = rlTicks + 1
    /\ rlLast' = [rlLast EXCEPT !.op = "waited"]
    /\ UNCHANGED <<server, maxRequests, timestamps, rlAccepted,
                   sqVars, pgVars, fsVars, obVars, stVars, ldVars, obRead>>

NextLimiter ==
    \/ RlCheckLimit
    \/ RlGetRemaining
    \/ RlTimePasses
    \/ RlWaitsAsTold

(***************************************************************************)
(* The servers.  Each server is a process of its own: a behaviour is the   *)
(* life of one of them.                                                    *)
(***************************************************************************)
FsConfigs ==
    { [root |-> <<"/", "r">>, home |-> <<"/", "h">>],
      [root |-> <<"/", "r">>, home |-> <<"/", "r", "/", "h">>],
      [root |-> <<"/", "r", "/">>, home |-> <<"/", "h">>] }

Init ==
    /\ server \in {"sqlite", "postgres", "filesystem", "obsidian", "starting", "linear", "listing"}
    /\ READ_ONLY \in BOOLEAN
    /\ dbFile = "ok"
    /\ db = FALSE
    /\ sqPc = "idle"
    /\ sqSql = <<>>
    /\ sqTrace = <<>>
    /\ sqResp = NoReply
    /\ sqTool = "none"
    /\ sqTable = <<>>
    /\ sqCatalog = <<>>
    /\ sqStmts = <<>>
    /\ sqColumns = <<>>
    /\ sqTerm = <<>>
    /\ sqParams = <<>>
    /\ sqRows = <<>>
    /\ sqOut = NoOut
    /\ pgPc = "idle"
    /\ pgCall = NoCall
    /\ pgTrace = <<>>
    /\ pgHeld = FALSE
    /\ pgFailed = FALSE
    /\ pgResp = NoReply
    /\ pgOut = NoPgOut
    /\ \E c \in FsConfigs : FS_ROOT = c.root /\ home = c.home
    /\ fsPc = "idle"
    /\ fsCall = NoFsCall
    /\ fsIo = <<>>
    /\ fsResp = NoReply
    /\ fsDisk = NoDisk
    /\ fsOut = NoFsOut
    /\ fsStat = 0
    /\ vault = [name \in NoteNames |-> NoFile]
    /\ clock = CACHE_TTL
    /\ noteCache = <<>>
    /\ lastCacheUpdate = 0
    /\ obPc = "idle"
    /\ obSeen = <<>>
    /\ obResp = "none"
    /\ obBefore = NoBefore
    /\ obRead = NoRead
    /\ IF server = "starting"
       THEN stAdapter \in Adapters /\ stEnv \in Envs /\ stPc = "load"
       ELSE stAdapter = "none" /\ stEnv = NoEnv /\ stPc = "none"
    /\ stExit = -1
    /\ stDiag = 0
    /\ stServed = 0
    /\ maxRequests \in (IF server = "linear" THEN Limits ELSE {0})
    /\ timestamps = <<>>
    /\ rlClock = 0
    /\ rlAccepted = <<>>
    /\ rlLast = NoCheck
    /\ rlTicks = 0
    /\ ldMax \in (IF server = "listing" THEN Caps ELSE {MAX_RESULTS})
    /\ ldPc = "idle"
    /\ ldTree = <<>>
    /\ ldStart = <<>>
    /\ ldRecursive = FALSE
    /\ ldOut = NoScan

Next ==
    \/ NextSqlite
    \/ NextTables
    \/ NextPostgres
    \/ NextFilesystem
    \/ NextContent
    \/ NextObsidian
    \/ NextStartup
    \/ NextLimiter
    \/ NextConcurrentRead
    \/ NextScan
    \/ NextReadNote

Spec == Init /\ [][Next]_vars

InitSqlite == Init /\ server = "sqlite" /\ FS_ROOT = <<"/", "r">> /\ home = <<"/", "h">>

SpecSqlite == InitSqlite /\ [][NextSqlite]_vars

\* sqlite-mcp answering the tools that take or read table names
SpecTables == InitSqlite /\ [][NextTables]_vars

InitPostgres ==
    Init /\ server = "postgres" /\ READ_ONLY /\ FS_ROOT = <<"/", "r">> /\ home = <<"/", "h">>

SpecPostgres == InitPostgres /\ [][NextPostgres]_vars

InitFilesystem == Init /\ server = "filesystem" /\ READ_ONLY

SpecFilesystem == InitFilesystem /\ [][NextFilesystem]_vars

\* filesystem-mcp answering calls whose outcome depends on what is on disk
SpecContent == InitFilesystem /\ [][NextContent]_vars

InitObsidian ==
    Init /\ server = "obsidian" /\ READ_ONLY /\ FS_ROOT = <<"/", "r">> /\ home = <<"/", "h">>

SpecObsidian == InitObsidian /\ [][NextObsidian]_vars

\* obsidian-mcp reading notes
SpecReadNote == InitObsidian /\ [][NextReadNote]_vars

\* filesystem-mcp reading files that another process writes
SpecConcurrentRead == InitFilesystem /\ [][NextConcurrentRead]_vars

\* filesystem-mcp listing directory trees
InitScan ==
    Init /\ server = "listing" /\ READ_ONLY /\ FS_ROOT = <<"/", "r">> /\ home = <<"/", "h">>

SpecScan == InitScan /\ [][NextScan]_vars

\* an adapter from the start of its process on
InitStartup ==
    Init /\ server = "starting" /\ READ_ONLY /\ FS_ROOT = <<"/", "r">> /\ home = <<"/", "h">>

SpecStartup == InitStartup /\ [][NextStartup]_vars

\* the rate limiter of linear-mcp
InitLimiter ==
    Init /\ server = "linear" /\ READ_ONLY /\ FS_ROOT = <<"/", "r">> /\ home = <<"/", "h">>

SpecLimiter == InitLimiter /\ [][NextLimiter]_vars

\* the two SQL servers, for what is said of both gates
InitQuery == Init /\ server \in {"sqlite", "postgres"} /\ FS_ROOT = <<"/", "r">> /\ home = <<"/", "h">>

NextQuery == NextSqlite \/ NextPostgres

SpecQuery == InitQuery /\ [][NextQuery]_vars

(***************************************************************************)
(* Properties.                                                             *)
(***************************************************************************)

\* the canonical root, and the confinement rule: the root itself, or the root
\* followed immediately by a separator
CanonicalRoot == PathResolve(<<>>, FS_ROOT)

Confined(p) == p = CanonicalRoot \/ StartsWith(p, CanonicalRoot \o <<"/">>)

\* the tools that hand their path argument to resolvePath as it is
PathTools == {"read_file", "get_info"}

\* C1: for every input and root, resolvePath returns the canonical resolved
\* path when that path is the canonical root or begins with the root followed
\* by a separator, and rejects every other resolution with 'Access denied:
\* path is outside root directory' (a sibling sharing the root's prefix
\* included).
C1_ResolvePathConfined ==
    (fsPc = "done" /\ fsCall.tool \in PathTools) =>
        LET p == PathResolve(FS_ROOT, ExpandTilde(fsCall.path))
        IN  IF Confined(p)
            THEN ResolvePath(fsCall.path) = [ok |-> TRUE, path |-> p]
            ELSE ~ResolvePath(fsCall.path).ok /\ fsResp.message = AccessDenied

\* C2: whatever the tool and its arguments, every file read and every
\* directory scanned lies at FS_ROOT or beneath it.
C2_IoConfined ==
    \A i \in 1..Len(fsIo) :
        fsIo[i].op \in {"readFile", "readdir"} => Confined(fsIo[i].path)

\* what the properties of the two gates are stated with: the words of a query
\* (its maximal runs of letters, digits and underscores, in upper case), its
\* first word, and whether a semicolon is followed by anything but whitespace
WordsOf(s) ==
    LET starts == {i \in 1..Len(s) :
                      IsWordChar(s[i]) /\ (i = 1 \/ ~IsWordChar(s[i - 1]))}
        EndOf(i) == CHOOSE j \in i..Len(s) :
                       /\ \A k \in i..j : IsWordChar(s[k])
                       /\ (j = Len(s) \/ ~IsWordChar(s[j + 1]))
    IN  {ToUpperCase(SubSeq(s, i, EndOf(i))) : i \in starts}

FirstWord(s) ==
    LET first == {i \in 1..Len(s) : ~IsSpace(s[i])}
        i == CHOOSE k \in first : \A j \in first : k <= j
        stop == {j \in i..Len(s) : ~IsWordChar(s[j])} \cup {Len(s) + 1}
        j == CHOOSE k \in stop : \A m \in stop : k <= m
    IN  IF first = {} THEN <<>> ELSE ToUpperCase(SubSeq(s, i, j - 1))

SemicolonThenText(s) ==
    \E i \in 1..Len(s) : s[i] = ";" /\ \E j \in (i + 1)..Len(s) : ~IsSpace(s[j])

BeginsWith(s, keyword) ==
    \E n \in 0..Len(s) :
        /\ \A i \in 1..n : IsSpace(s[i])
        /\ n + Len(keyword) <= Len(s)
        /\ \A i \in 1..Len(keyword) : UpperChar(s[n + i]) = keyword[i]

SqliteWords == {SqliteDangerous[k] : k \in 1..Len(SqliteDangerous)}

PgWords == {ToUpperCase(PgDangerous[k]) : k \in 1..Len(PgDangerous)}

\* the sqlite call has been answered in read-only mode from the gate onwards
SqGated ==
    /\ server = "sqlite"
    /\ sqPc = "done"
    /\ READ_ONLY
    /\ \E i \in 1..Len(sqTrace) : sqTrace[i] = "gate"

\* the postgres call has passed its gate, or has been answered by it
PgGated == server = "postgres" /\ pgPc # "idle"

PgDeniedByGate == pgPc = "done" /\ pgTrace = <<>> /\ pgResp.message # "Database error: "

\* C3: in sqlite read-only mode and in pg_query and pg_explain the gate is
\* evaluated before anything is executed: a statement is prepared or run, a
\* pooled client acquired or a statement sent, only for a query the gate
\* allows, and a denied query is answered with the denial alone.
C3_GateBeforeExecute ==
    /\ (server = "sqlite" /\ READ_ONLY /\ sqPc = "done") =>
          \E verdict \in {SqliteGate(sqSql)} :
              /\ \A i \in 1..Len(sqTrace) :
                    sqTrace[i] \in {"prepare", "all"} =>
                        /\ \E j \in 1..(i - 1) : sqTrace[j] = "gate"
                        /\ verdict.allowed
              /\ (SqGated /\ ~verdict.allowed) =>
                    /\ sqTrace[Len(sqTrace)] = "gate"
                    /\ sqResp.kind = "error"
                    /\ sqResp.message = verdict.message
    /\ PgGated =>
          \E verdict \in {PgGate(pgCall.tool, pgCall.query)} :
              /\ (pgHeld \/ pgTrace # <<>> \/ pgPc # "done") => verdict.allowed
              /\ ~verdict.allowed =>
                    /\ PgDeniedByGate
                    /\ ~pgHeld
                    /\ pgResp.isError
                    /\ pgResp.message = verdict.message

\* a denied sqlite query answered after the gate and nothing else
C3_Witness ==
    /\ SqGated
    /\ FirstWord(sqSql) \in SqliteWords
    /\ ~SqliteGate(sqSql).allowed
    /\ sqTrace = <<"existsSync", "open", "gate">>
    /\ sqResp.kind = "error"

\* the three conditions of the sqlite decision rule
C4_Rule(s) ==
    /\ BeginsWith(s, KwSELECT) \/ BeginsWith(s, KwWITH) \/ BeginsWith(s, KwEXPLAIN)
    /\ WordsOf(s) \cap SqliteWords = {}
    /\ ~SemicolonThenText(s)

\* C4: the sqlite gate (and the tests' isQueryAllowed) allows a query iff
\* its trimmed, upper-cased text begins with SELECT, WITH or EXPLAIN, no
\* deny-listed keyword occurs in it as a whole word, and no semicolon is
\* followed by a non-whitespace character; empty and whitespace-only queries
\* are denied; leading whitespace and letter case never change the verdict.
C4_SqliteDecisionRule ==
    SqGated =>
        \E rule \in {C4_Rule(sqSql)} :
            /\ SqliteGate(sqSql).allowed <=> rule
            /\ IsQueryAllowed(sqSql).allowed <=> rule
            /\ (\E i \in 1..Len(sqTrace) : sqTrace[i] = "prepare") <=> rule
            /\ (\A i \in 1..Len(sqSql) : IsSpace(sqSql[i])) => ~rule
            /\ SqliteGate(<<" ">> \o sqSql).allowed <=> rule
            /\ SqliteGate(ToLowerCase(sqSql)).allowed <=> rule
            /\ SqliteGate(ToUpperCase(sqSql)).allowed <=> rule

\* an allowed query that begins with whitespace
C4_Witness ==
    /\ SqGated
    /\ sqSql # <<>>
    /\ sqSql[1] = " "
    /\ SqliteGate(sqSql).allowed
    /\ sqResp.kind = "result"

\* C5: both gates match deny-listed keywords as whole words, case
\* insensitively: a query is denied for a keyword exactly when that keyword
\* is one of its words (in sqlite, once the prefix test has passed), and a
\* keyword that occurs only inside an identifier or a longer word never
\* causes a denial.
C5_WholeWordMatching ==
    /\ SqGated =>
          \E words \in {WordsOf(sqSql)} :
              /\ sqResp.message = SqliteKeywordMessage <=>
                    (SqlitePrefixOk(sqSql) /\ words \cap SqliteWords # {})
              /\ sqResp.message = SqliteKeywordMessage => sqResp.keyword \in words
              /\ words \cap SqliteWords # {} => sqResp.kind = "error"
    /\ PgGated =>
          \E words \in {WordsOf(pgCall.query)} :
              /\ (pgPc = "done" /\ pgResp.message = PgKeywordMessage) <=>
                    words \cap PgWords # {}
              /\ pgResp.message = PgKeywordMessage => pgResp.keyword \in words

\* a query that holds a keyword inside a longer word, and is allowed
C5_Witness ==
    /\ PgGated
    /\ pgPc = "connect"
    /\ RegexSubstringTest(<<"I", "N", "S", "E", "R", "T">>, pgCall.query)
    /\ WordsOf(pgCall.query) \cap PgWords = {}

\* C6 as stated: whenever a semicolon is followed, after optional whitespace,
\* by a non-whitespace character, the sqlite gate denies the query with the
\* reason 'Multiple statements are not allowed'.
C6_MultiStatementReason ==
    (SqGated /\ SemicolonThenText(sqSql)) => sqResp.message = SqliteMultiMessage

\* C6: a query in which a semicolon is followed, after optional whitespace,
\* by a non-whitespace character is always denied by the sqlite gate; the
\* reason is 'Multiple statements are not allowed' exactly when the query
\* also passes the prefix test and the keyword scan (those two are tested
\* first and give their own reasons); a query whose semicolons are all
\* trailing is never denied by the multi-statement rule.
C6_MultiStatementRule ==
    SqGated =>
        /\ SemicolonThenText(sqSql) =>
              /\ sqResp.kind = "error"
              /\ sqTrace[Len(sqTrace)] = "gate"
              /\ sqResp.message \in
                    {SqlitePrefixMessage, SqliteKeywordMessage, SqliteMultiMessage}
        /\ sqResp.message = SqliteMultiMessage <=>
              /\ SemicolonThenText(sqSql)
              /\ SqlitePrefixOk(sqSql)
              /\ WordsOf(sqSql) \cap SqliteWords = {}

\* a semicolon, whitespace, then text: denied for multiple statements
C6_Witness ==
    /\ SqGated
    /\ sqResp.message = SqliteMultiMessage
    /\ \E i \in 1..(Len(sqSql) - 1) : sqSql[i] = ";" /\ sqSql[i + 1] = " "

\* a further statement after a semicolon: text that is neither whitespace nor
\* another semicolon
FurtherStatement(s) ==
    \E i \in 1..Len(s) :
        s[i] = ";" /\ \E j \in (i + 1)..Len(s) : ~IsSpace(s[j]) /\ s[j] # ";"

\* C7: the postgres gate denies every query in which a semicolon is followed
\* by a further statement: no client is acquired and nothing is sent for it.
C7_PgDeniesFurtherStatement ==
    (PgGated /\ FurtherStatement(pgCall.query)) =>
        /\ PgDeniedByGate
        /\ pgResp.isError
        /\ ~pgHeld

\* C8: the postgres deny-list includes INTO, EXECUTE and LOCK: pg_query
\* denies a query in which one of them occurs as a whole word.
C8_PgDeniesIntoExecuteLock ==
    (PgGated /\ pgCall.tool = "pg_query"
        /\ WordsOf(pgCall.query) \cap {KwINTO, KwEXECUTE, KwLOCK} # {}) =>
            /\ PgDeniedByGate
            /\ pgResp.isError

\* C9 as stated: when the first word of a denied query is a deny-listed
\* keyword, the denial reason names that keyword, in both gates.
C9_ReasonNamesFirstWord ==
    /\ (SqGated /\ FirstWord(sqSql) \in SqliteWords) =>
          sqResp.kind = "error" /\ sqResp.keyword = FirstWord(sqSql)
    /\ (PgGated /\ FirstWord(pgCall.query) \in PgWords) =>
          PgDeniedByGate /\ pgResp.keyword = FirstWord(pgCall.query)

\* C9: when the first word of a query is a deny-listed keyword the query is
\* denied by both gates.  The sqlite gate tests the prefix first, so its
\* reason is 'Only SELECT, WITH, and EXPLAIN queries are allowed in read-only
\* mode' and names no keyword.  The postgres gate scans for keywords first,
\* so its reason names a keyword: the first one, in the order of its
\* deny-list, that occurs in the query as a whole word, which is the first
\* word of the query unless a keyword listed before it occurs as well.
C9_DenialReason ==
    /\ (SqGated /\ FirstWord(sqSql) \in SqliteWords) =>
          /\ sqResp.kind = "error"
          /\ sqResp.message = SqlitePrefixMessage
          /\ sqResp.keyword = <<>>
    /\ (PgGated /\ FirstWord(pgCall.query) \in PgWords) =>
          \E words \in {WordsOf(pgCall.query)} :
              LET Listed(k) == ToUpperCase(PgDangerous[k])
                  first == CHOOSE k \in 1..Len(PgDangerous) :
                               /\ Listed(k) \in words
                               /\ \A j \in 1..(k - 1) : Listed(j) \notin words
                  own == CHOOSE k \in 1..Len(PgDangerous) :
                             Listed(k) = FirstWord(pgCall.query)
              IN  /\ PgDeniedByGate
                  /\ pgResp.message = PgKeywordMessage
                  /\ pgResp.keyword = Listed(first)
                  /\ pgResp.keyword = FirstWord(pgCall.query) <=>
                        \A j \in 1..(own - 1) : Listed(j) \notin words

\* a sqlite query whose first word is INSERT, denied by the prefix test
C9_Witness ==
    /\ SqGated
    /\ FirstWord(sqSql) = <<"I", "N", "S", "E", "R", "T">>
    /\ sqResp.message = SqlitePrefixMessage

\* C10: the verdict of the sqlite gate is a function of the query string
\* alone: a denied query is answered with the gate's denial whether or not
\* the database file exists.
C10_VerdictFromQueryAlone ==
    (server = "sqlite" /\ sqPc = "done" /\ READ_ONLY /\ ~SqliteGate(sqSql).allowed) =>
        /\ sqResp.message = SqliteGate(sqSql).message
        /\ sqResp.keyword = SqliteGate(sqSql).keyword

\* the characters an accepted name is made of, and some it must not hold
AcceptableChars ==
    LowerLetters \cup UpperLetters \cup Digits \cup {"_", " ", "-"}

Acceptable(name) ==
    name # <<>> /\ \A i \in 1..Len(name) : name[i] \in AcceptableChars

DisallowedChars == {";", "'", "\"", "(", ")", "/", "\\", "\n", "\t", "\r"}

\* a table tool that validates its argument has been answered
SqValidated ==
    /\ server = "sqlite"
    /\ sqPc = "done"
    /\ sqTool \in {"sample", "describe_table"}

\* C11: validateIdentifier returns the name unchanged iff it matches
\* ^[A-Za-z_][A-Za-z0-9_]*$ or ^[A-Za-z0-9_ -]+$, and otherwise fails with
\* 'Invalid table name: contains disallowed characters': the empty name and
\* every name holding one of ; ' " ( ) / \ or a control character (a trailing
\* newline included) are rejected and nothing is prepared for them, while a
\* digit-leading name is accepted.
C11_ValidateIdentifier ==
    SqValidated =>
        \E v \in {ValidateIdentifier(sqTable, "table")} :
            /\ v.ok <=> Acceptable(sqTable)
            /\ v.ok => v.name = sqTable
            /\ ~v.ok => v.message = "Invalid table name: contains disallowed characters"
            /\ (sqTable = <<>> \/ \E i \in 1..Len(sqTable) : sqTable[i] \in DisallowedChars)
                  => ~v.ok
            /\ (sqTable # <<>> /\ sqTable[1] \in Digits
                  /\ \A i \in 2..Len(sqTable) : sqTable[i] \in IdentChars) => v.ok
            /\ ~v.ok =>
                  /\ sqStmts = <<>>
                  /\ sqResp.kind = "error"
                  /\ sqResp.message \in {v.message, "Database file not found: "}
            /\ sqResp.message = "Invalid table name: contains disallowed characters"
                  => ~Acceptable(sqTable)

\* a name that ends with a newline, rejected by the sample tool
C11_Witness ==
    /\ SqValidated
    /\ sqTool = "sample"
    /\ sqTable = <<"a", "\n">>
    /\ sqResp.message = "Invalid table name: contains disallowed characters"
    /\ sqStmts = <<>>

\* reading a quoted identifier under the doubled-quote grammar: the name it
\* denotes and the position of the quote that closes it
RECURSIVE ReadQuotedFrom(_, _, _)
ReadQuotedFrom(q, i, acc) ==
    IF i > Len(q) THEN [ok |-> FALSE, name |-> acc, end |-> 0]
    ELSE IF q[i] # "\"" THEN ReadQuotedFrom(q, i + 1, Append(acc, q[i]))
    ELSE IF i < Len(q) /\ q[i + 1] = "\""
    THEN ReadQuotedFrom(q, i + 2, Append(acc, "\""))
    ELSE [ok |-> TRUE, name |-> acc, end |-> i]

ReadQuoted(q) ==
    IF q = <<>> \/ q[1] # "\"" THEN [ok |-> FALSE, name |-> <<>>, end |-> 0]
    ELSE ReadQuotedFrom(q, 2, <<>>)

QuotesIn(name) == Cardinality({i \in 1..Len(name) : name[i] = "\""})

\* the quoted identifier inside PRAGMA table_info(...)
QuotedIn(stmt) == SubSeq(stmt, 2, Len(stmt) - 1)

\* C12: for every name, validated or not, quoteIdentifier gives the name
\* with each double quote doubled between one opening and one closing double
\* quote: read under the doubled-quote grammar the result denotes exactly the
\* name and is closed by its last character only; for a name matching
\* [A-Za-z_][A-Za-z0-9_]* the result is the name between two double quotes.
C12_QuoteRoundTrip ==
    (server = "sqlite" /\ sqPc = "done" /\ sqTool = "list_tables" /\ Len(sqStmts) >= 2) =>
        \E q \in {QuotedIn(sqStmts[2])} :
            /\ q = QuoteIdentifier(sqCatalog[1])
            /\ ReadQuoted(q) = [ok |-> TRUE, name |-> sqCatalog[1], end |-> Len(q)]
            /\ Len(q) = Len(sqCatalog[1]) + QuotesIn(sqCatalog[1]) + 2
            /\ MatchesSimple(sqCatalog[1]) => q = <<"\"">> \o sqCatalog[1] \o <<"\"">>

\* a table whose name holds a double quote has been listed
C12_Witness ==
    /\ server = "sqlite"
    /\ sqPc = "done"
    /\ sqTool = "list_tables"
    /\ sqCatalog = << <<"a", "\"">> >>
    /\ Len(sqStmts) = 3
    /\ sqStmts[2] = <<"PRAGMA table_info(", "\"", "a", "\"", "\"", "\"", ")">>

\* a path without its empty and '.' segments
RECURSIVE PlainSegments(_)
PlainSegments(segs) ==
    IF segs = <<>> THEN <<>>
    ELSE IF Head(segs) \in {<<>>, <<".">>} THEN PlainSegments(Tail(segs))
    ELSE <<Head(segs)>> \o PlainSegments(Tail(segs))

PlainPath(p) ==
    (IF IsAbsolute(p) THEN <<"/">> ELSE <<>>) \o JoinPath(PlainSegments(SplitPath(p)))

\* the edge cases of resolvePath, one by one, for the input of a path tool
EdgeEmptyAndDot(input) ==
    input \in {<<>>, <<".">>} => ResolvePath(input) = [ok |-> TRUE, path |-> CanonicalRoot]

EdgeParent(input) == input = <<".", ".">> => ~ResolvePath(input).ok

EdgeAbsolute(input) ==
    IsAbsolute(input) =>
        /\ ResolvePath(input).ok <=> Confined(PathResolve(<<>>, input))
        /\ ResolvePath(input).ok => ResolvePath(input).path = PathResolve(<<>>, input)

\* (a normal form that begins with '~' is left out: it would be expanded)
EdgeRedundant(input) ==
    (input # <<>> /\ input[1] # "~" /\ ~StartsWith(PlainPath(input), <<"~">>)) =>
        ResolvePath(input) = ResolvePath(PlainPath(input))

EdgeTilde(input) ==
    (input # <<>> /\ input[1] = "~" /\ ~Confined(PathResolve(<<>>, home))) =>
        ~ResolvePath(input).ok

\* C13: for any root, the empty input and '.' resolve to the root and are
\* accepted; a bare '..' is denied; an absolute input is accepted iff it lies
\* under the root, and is then returned in canonical form; redundant
\* separators and '.' segments do not change the result; a '~'-leading input
\* is expanded to the home directory and denied when the home directory is
\* not inside the root.
C13_ResolvePathEdgeCases ==
    (fsPc = "done" /\ fsCall.tool \in PathTools) =>
        /\ EdgeEmptyAndDot(fsCall.path)
        /\ EdgeParent(fsCall.path)
        /\ EdgeAbsolute(fsCall.path)
        /\ EdgeRedundant(fsCall.path)
        /\ EdgeTilde(fsCall.path)
        /\ ~ResolvePath(fsCall.path).ok => fsResp.message = AccessDenied /\ fsIo = <<>>

\* read_file has returned what readFileContent gave for the file on disk
FileRead ==
    /\ server = "filesystem"
    /\ fsPc = "done"
    /\ fsCall.tool = "read_file"
    /\ fsResp.kind = "result"
    /\ fsOut.content # ""

\* C14: readFileContent returns truncated = true iff the size of the file
\* exceeds MAX_FILE_SIZE, for text and binary files alike.
C14_TruncatedIffOverCap ==
    FileRead => (fsOut.truncated <=> fsDisk.size > MAX_FILE_SIZE)

\* C15: a buffer is classified binary iff a zero byte occurs among its first
\* min(length, 8192) bytes: a zero byte only at offset 8192 or later gives
\* text, and so does the empty file; for a binary file readFileContent does
\* not raise and returns the content '[Binary file]' with binary = true in
\* place of the bytes.
C15_BinaryClassification ==
    FileRead =>
        /\ fsOut.binary <=>
              \E z \in fsDisk.zeros : z < SampleSize /\ z < fsDisk.size
        /\ fsDisk.size = 0 => ~fsOut.binary
        /\ fsOut.binary <=> fsOut.content = "[Binary file]"
        /\ fsOut.binary => fsOut.bytes = 0 /\ fsResp.message = "[Binary file - cannot display]"
        /\ ~fsOut.binary =>
              fsOut.bytes = (IF fsDisk.size < MAX_FILE_SIZE THEN fsDisk.size ELSE MAX_FILE_SIZE)

\* a file whose only zero byte is at offset 8192 is read as text
C15_Witness ==
    /\ FileRead
    /\ fsDisk.size = SampleSize + 1
    /\ fsDisk.zeros = {SampleSize}
    /\ ~fsOut.binary
    /\ fsOut.content = "utf-8"

\* C16: for every successful query returning n rows, executeQuery returns
\* the first min(n, MAX_ROWS) rows in the engine's order, rowCount = n and
\* truncated = (n > MAX_ROWS).
C16_SqliteWindow ==
    (server = "sqlite" /\ sqPc = "done" /\ sqTool = "query" /\ sqResp.kind = "result") =>
        /\ Len(sqOut.rows) = (IF Len(sqRows) < MAX_ROWS THEN Len(sqRows) ELSE MAX_ROWS)
        /\ \A i \in 1..Len(sqOut.rows) : sqOut.rows[i] = sqRows[i]
        /\ sqOut.rowCount = Len(sqRows)
        /\ sqOut.truncated <=> Len(sqRows) > MAX_ROWS

\* a query that returned exactly MAX_ROWS rows: all of them, not truncated
C16_Witness ==
    /\ server = "sqlite"
    /\ sqPc = "done"
    /\ sqTool = "query"
    /\ sqResp.kind = "result"
    /\ Len(sqRows) = MAX_ROWS
    /\ Len(sqOut.rows) = MAX_ROWS
    /\ ~sqOut.truncated

\* C17: list_directory, search_files and search_content report 'Results
\* limited to MAX_RESULTS' iff the number of entries before windowing exceeds
\* MAX_RESULTS; with exactly MAX_RESULTS entries all are returned and no
\* truncation is reported.
C17_NoticeIffOverCap ==
    (server = "filesystem" /\ fsPc = "done" /\ fsResp.kind = "result"
        /\ fsCall.tool \in {"list_directory", "search_files", "search_content"}
        /\ fsCall.path \in {<<>>, <<"r">>} /\ fsIo # <<>> /\ fsDisk # NoDisk) =>
        /\ Len(fsOut.items) =
              (IF fsDisk.total < MAX_RESULTS THEN fsDisk.total ELSE MAX_RESULTS)
        /\ fsOut.notice <=> fsDisk.total > MAX_RESULTS
        /\ fsResp.message = "*Results limited to *" <=> fsDisk.total > MAX_RESULTS

\* the operations of one accepted call on the pool and the client
PgConnected == PgEvent("connect", <<>>)

PgBeginSent == PgEvent("query", <<"BEGIN TRANSACTION READ ONLY">>)

PgUserSent == PgEvent("query", PgStatement(pgCall))

PgCommitSent == PgEvent("query", <<"COMMIT">>)

PgRollbackSent == PgEvent("query", <<"ROLLBACK">>)

PgReleased == PgEvent("release", <<>>)

PgCommitted == <<PgConnected, PgBeginSent, PgUserSent, PgCommitSent, PgReleased>>

PgBeginFailed == <<PgConnected, PgBeginSent, PgRollbackSent, PgReleased>>

PgQueryFailed == <<PgConnected, PgBeginSent, PgUserSent, PgRollbackSent, PgReleased>>

PgCommitFailed ==
    <<PgConnected, PgBeginSent, PgUserSent, PgCommitSent, PgRollbackSent, PgReleased>>

PgProtocols == {PgCommitted, PgBeginFailed, PgQueryFailed, PgCommitFailed}

IsPrefix(s, t) == Len(s) <= Len(t) /\ SubSeq(t, 1, Len(s)) = s

Occurrences(e, s) == Cardinality({i \in 1..Len(s) : s[i] = e})

\* C18: for every accepted pg_query and pg_explain call, 'BEGIN TRANSACTION
\* READ ONLY' is sent on the acquired client before the user's statement, and
\* the user's statement is sent only after it, inside the transaction; COMMIT
\* follows on success and ROLLBACK follows any failed statement; the client
\* is released exactly once on every path, whichever statement failed.
C18_ReadOnlyTransaction ==
    server = "postgres" =>
        /\ \E t \in PgProtocols : IsPrefix(pgTrace, t)
        /\ \A i \in 1..Len(pgTrace) :
              pgTrace[i] = PgUserSent =>
                  /\ i = 3
                  /\ pgTrace[2] = PgBeginSent
                  /\ pgTrace[1] = PgConnected
        /\ Occurrences(PgReleased, pgTrace) <= 1
        /\ pgHeld <=> (Occurrences(PgConnected, pgTrace) = 1
                          /\ Occurrences(PgReleased, pgTrace) = 0)
        /\ (pgPc = "done" /\ pgTrace # <<>>) =>
              /\ pgTrace \in PgProtocols
              /\ Occurrences(PgReleased, pgTrace) = 1
              /\ pgTrace[Len(pgTrace)] = PgReleased
              /\ pgResp.kind = "result" <=> pgTrace = PgCommitted
              /\ pgResp.kind = "error" <=> Occurrences(PgRollbackSent, pgTrace) = 1
              /\ pgResp.kind = "error" <=> pgFailed

\* a call whose COMMIT failed: ROLLBACK was sent and the client released once
C18_Witness ==
    /\ server = "postgres"
    /\ pgPc = "done"
    /\ pgCall.tool = "pg_explain"
    /\ pgTrace = PgCommitFailed
    /\ ~pgHeld
    /\ pgResp.kind = "error"

\* a cache that is the whole result of a rebuild over its own notes: the
\* second pass ran to its end and every backlink is the one it computes
RECURSIVE WithoutBacklinks(_)
WithoutBacklinks(cache) ==
    IF cache = <<>> THEN <<>>
    ELSE <<[Head(cache) EXCEPT !.backlinks = <<>>]>> \o WithoutBacklinks(Tail(cache))

CompleteSnapshot(cache) ==
    \E built \in {SecondPass(WithoutBacklinks(cache), 1, 1, 1)} :
        ~built.thrown /\ built.cache = cache

\* C19: a reader of noteCache sees a complete snapshot, the previous one or
\* the new one, and never a partially rebuilt state (cleared but not
\* refilled, partially filled, backlinks only partly computed), also after a
\* rebuild that an exception aborted.
C19_SnapshotAtomicity ==
    (server = "obsidian" /\ obPc = "done" /\ obResp = "result") =>
        /\ obSeen = noteCache
        /\ CompleteSnapshot(obSeen)

\* C20: every validation error (invalid identifier, denied query, path
\* outside the root) and every resource error (file not found, query
\* failure, connection failure) raised while sqlite-mcp, filesystem-mcp or
\* postgres-mcp handles a tool call is returned as an error payload that
\* carries the error flag isError and the reason; it is never returned as a
\* success-shaped payload.
C20_ErrorBoundary ==
    /\ (server = "sqlite" /\ sqPc = "done" /\ sqResp.kind = "error") =>
          sqResp.isError /\ sqResp.message # ""
    /\ (server = "postgres" /\ pgPc = "done" /\ pgResp.kind = "error") =>
          pgResp.isError /\ pgResp.message # ""
    /\ (server = "filesystem" /\ fsPc = "done" /\ fsResp.kind = "error") =>
          fsResp.isError /\ fsResp.message # ""

\* C21: an adapter started without its required environment variable exits
\* with a non-zero code and a diagnostic before the server connects to the
\* transport, so it never serves a tool call.
C21_StartupFatal ==
    (server = "starting" /\ ~stEnv.required) =>
        /\ stPc # "connected"
        /\ stServed = 0
        /\ stPc = "exited" => stExit > 0 /\ stDiag > 0

\* the accepted calls before the last call, and how many of them lie in the
\* windowMs before the time now
AcceptedBefore ==
    IF rlLast.op = "checkLimit" /\ rlLast.ok
    THEN SubSeq(rlAccepted, 1, Len(rlAccepted) - 1)
    ELSE rlAccepted

Recent(accepted, now) ==
    Cardinality({j \in 1..Len(accepted) : now - accepted[j] < windowMs})

\* C22: for checkLimit calls at non-decreasing times, no window of 60
\* seconds holds more than maxRequests accepted calls; a call made while
\* maxRequests accepted calls lie in the preceding 60 seconds is rejected
\* with 'Rate limit exceeded', and a call made while fewer lie there is
\* accepted.
C22_LimiterSafety ==
    server = "linear" =>
        /\ \A i \in 1..Len(rlAccepted) :
              Cardinality({j \in 1..Len(rlAccepted) :
                              /\ rlAccepted[j] >= rlAccepted[i]
                              /\ rlAccepted[j] < rlAccepted[i] + windowMs}) <= maxRequests
        /\ \A i \in 1..(Len(rlAccepted) - 1) : rlAccepted[i] <= rlAccepted[i + 1]
        /\ rlLast.op = "checkLimit" =>
              /\ Recent(AcceptedBefore, rlLast.at) <= maxRequests
              /\ rlLast.ok <=> Recent(AcceptedBefore, rlLast.at) < maxRequests

\* a call rejected after the window has slid: more calls were accepted in all
\* than the limit allows in one window
C22_Witness ==
    /\ server = "linear"
    /\ maxRequests = 2
    /\ rlLast.op = "checkLimit"
    /\ ~rlLast.ok
    /\ Len(rlAccepted) > maxRequests

\* the oldest accepted call that lies in the window at the time now
OldestRecent(accepted, now) ==
    accepted[CHOOSE j \in 1..Len(accepted) :
                /\ now - accepted[j] < windowMs
                /\ \A k \in 1..Len(accepted) :
                      now - accepted[k] < windowMs => j <= k]

\* C23: after a rejection, requests are allowed again once the oldest
\* accepted request in the window is at least 60 seconds old; the wait N of
\* 'Try again in N seconds' is the ceiling of the remaining milliseconds
\* divided by 1000, with 1 <= N <= 60, and a checkLimit call made N seconds
\* after the rejection, with no call accepted in between, is accepted.
C23_LimiterRecovery ==
    server = "linear" =>
        /\ (rlLast.op \in {"checkLimit", "waited"} /\ ~rlLast.ok) =>
              \E remaining \in
                  {windowMs - (rlLast.at - OldestRecent(rlAccepted, rlLast.at))} :
                  /\ 1000 * (rlLast.wait - 1) < remaining
                  /\ remaining <= 1000 * rlLast.wait
                  /\ 1 <= rlLast.wait
                  /\ rlLast.wait <= 60
        /\ rlLast.op = "waited" => Recent(rlAccepted, rlClock) < maxRequests
        /\ (rlLast.op = "checkLimit" /\ rlLast.after = "waited") => rlLast.ok
        /\ (rlLast.op = "checkLimit" /\ rlLast.before # <<>>
               /\ rlLast.at - rlLast.before[1] >= windowMs) => rlLast.ok

\* a call rejected, repeated after the seconds the error named, and accepted
C23_Witness ==
    /\ server = "linear"
    /\ maxRequests = 2
    /\ rlLast.op = "checkLimit"
    /\ rlLast.after = "waited"
    /\ rlLast.ok
    /\ Len(timestamps) = 2

\* C24: getRemaining() is max(0, maxRequests minus the number of accepted
\* checkLimit calls of the last 60 seconds), never negative and never more
\* than maxRequests; a rejected checkLimit records no timestamp, so the
\* limiter holds exactly the accepted calls of the window.
C24_LimiterRemaining ==
    server = "linear" =>
        /\ rlLast.op = "getRemaining" =>
              /\ rlLast.remaining = Max(0, maxRequests - Recent(rlAccepted, rlLast.at))
              /\ rlLast.remaining >= 0
              /\ rlLast.remaining <= maxRequests
        /\ timestamps = SelectSeq(rlAccepted, LAMBDA t : rlLast.at - t < windowMs)
        /\ (rlLast.op = "checkLimit" /\ ~rlLast.ok) =>
              /\ Len(timestamps) <= Len(rlLast.before)
              /\ \A i \in 1..Len(timestamps) :
                    \E j \in 1..Len(rlLast.before) : timestamps[i] = rlLast.before[j]

\* the quota after an accepted call has left the window
C24_Witness ==
    /\ server = "linear"
    /\ maxRequests = 2
    /\ rlLast.op = "getRemaining"
    /\ rlLast.remaining = 1
    /\ Len(rlAccepted) = 3

\* C25: for every accepted query, pg_query returns at most limit rows (100
\* when no limit is given), whatever the text of the query, also when the
\* query holds the text 'limit' in a column name or a LIMIT clause of its own.
C25_PgRowCap ==
    (server = "postgres" /\ pgPc = "done" /\ pgCall.tool = "pg_query"
        /\ pgResp.kind = "result") =>
        pgOut.rowCount <= pgCall.limit

\* C26: the content readFileContent returns never exceeds MAX_FILE_SIZE
\* bytes, also when another process changes the file between stat and the
\* read; content returned with truncated = true consists only of bytes read
\* from the file.
C26_BoundedRead ==
    (FileRead /\ ~fsOut.binary) =>
        /\ fsOut.bytes <= MAX_FILE_SIZE
        /\ fsOut.truncated => fsOut.bytes <= fsDisk.size


\* the fixed pieces of text the table tools build their statements from
StatementText ==
    {"SELECT name, type FROM sqlite_master ...", "PRAGMA table_info(", ")",
     "SELECT COUNT(*) as count FROM ", "SELECT * FROM ", " LIMIT ?", " WHERE ",
     " LIKE '%' || ? || '%'", " OR ", " LIMIT 10"}

\* the identifiers a statement names, read as the engine reads it: outside the
\* fixed text only quoted identifiers may stand, each closed by its own quote
RECURSIVE IdentifiersFrom(_, _, _)
IdentifiersFrom(stmt, i, acc) ==
    IF i > Len(stmt) THEN [ok |-> TRUE, names |-> acc]
    ELSE IF stmt[i] = "\""
    THEN LET read == ReadQuotedFrom(stmt, i + 1, <<>>)
         IN  IF read.ok THEN IdentifiersFrom(stmt, read.end + 1, Append(acc, read.name))
             ELSE [ok |-> FALSE, names |-> acc]
    ELSE IF stmt[i] \in StatementText THEN IdentifiersFrom(stmt, i + 1, acc)
    ELSE [ok |-> FALSE, names |-> acc]

Identifiers(stmt) == IdentifiersFrom(stmt, 1, <<>>)

\* the number of parameters a statement leaves to be bound
Placeholders(stmt) ==
    Cardinality({i \in 1..Len(stmt) : stmt[i] \in {" LIMIT ?", " LIKE '%' || ? || '%'"}})

RECURSIVE PlaceholdersOf(_)
PlaceholdersOf(stmts) ==
    IF stmts = <<>> THEN 0 ELSE Placeholders(Head(stmts)) + PlaceholdersOf(Tail(stmts))

\* a tool that takes a table name from its caller has been answered
SqNamed ==
    /\ server = "sqlite"
    /\ sqPc = "done"
    /\ \/ sqTool \in {"describe_table", "sample", "resource"}
       \/ sqTool = "search" /\ sqTable # <<>>

\* the names a statement may denote: the caller's, once validated, and those
\* read from sqlite_master and PRAGMA table_info
KnownNames ==
    (IF SqNamed /\ Acceptable(sqTable) THEN {sqTable} ELSE {})
        \cup {sqCatalog[i] : i \in 1..Len(sqCatalog)}
        \cup {sqColumns[i] : i \in 1..Len(sqColumns)}

\* C27: a table name given to describe_table, search, sample or the table
\* resource is validated before any statement is built, and a rejected name
\* prepares nothing; every identifier in a prepared statement, the caller's
\* or one read from sqlite_master and PRAGMA table_info, stands there quoted
\* by quoteIdentifier and denotes exactly that name; the search term and the
\* limit are bound as parameters and are in no statement's text.
C27_ValidateBeforeInterpolate ==
    (server = "sqlite" /\ sqPc = "done"
        /\ sqTool \in {"list_tables", "describe_table", "sample", "search", "resource"}) =>
        /\ (SqNamed /\ ~Acceptable(sqTable)) =>
              /\ sqStmts = <<>>
              /\ sqParams = <<>>
              /\ sqResp.kind \in {"error", "thrown"}
        /\ \A i \in 1..Len(sqStmts) :
              \E ids \in {Identifiers(sqStmts[i])} :
                  /\ ids.ok
                  /\ \A j \in 1..Len(ids.names) : ids.names[j] \in KnownNames
        /\ Len(sqParams) <= PlaceholdersOf(sqStmts)
        /\ sqResp.kind = "result" => Len(sqParams) = PlaceholdersOf(sqStmts)
        /\ \A i \in 1..Len(sqParams) :
              sqParams[i] = (IF sqTool = "search" THEN sqTerm ELSE SampleLimit)

\* a validated table has been searched for a term that holds a quote, over
\* a column whose name holds a double quote
C27_Witness ==
    /\ SqNamed
    /\ sqTool = "search"
    /\ sqTable = <<"a", " ">>
    /\ sqColumns = << <<"c">>, <<"\"", ";">> >>
    /\ sqTerm = <<"'", ";">>
    /\ Len(sqStmts) = 2
    /\ sqStmts[2] = <<"SELECT * FROM ", "\"", "a", " ", "\"", " WHERE ",
                      "\"", "c", "\"", " LIKE '%' || ? || '%'", " OR ",
                      "\"", "\"", "\"", ";", "\"", " LIKE '%' || ? || '%'",
                      " LIMIT 10">>
    /\ sqParams = <<sqTerm, sqTerm>>


\* the paths a cache holds, and the notes present in the vault, in order
PathsOf(cache) == [i \in 1..Len(cache) |-> cache[i].path]

PresentNotes == SelectSeq(NoteOrder, LAMBDA name : vault[name].present)

\* a note of the cache holds a link that names the target
LinksTo(source, target) ==
    \E j \in 1..Len(source.links) :
        \/ /\ target.title.type = "string"
           /\ ToLowerCase(target.title.value) = ToLowerCase(source.links[j])
        \/ ToLowerCase(target.path) = ToLowerCase(source.links[j])

\* every entry is a note the vault holds now, with the links of its file, and
\* every backlink comes from an entry that links to the note
BuiltFromVault(cache) ==
    /\ \A i \in 1..Len(cache) :
          /\ vault[cache[i].path].present
          /\ cache[i].links = ExtractLinks(vault[cache[i].path].links, LinkOrder)
          /\ \A b \in 1..Len(cache[i].backlinks) :
                \E k \in 1..Len(cache) :
                    /\ cache[k].path = cache[i].backlinks[b]
                    /\ LinksTo(cache[k], cache[i])

\* the refresh of the call was due: nothing cached, or the lifetime is over
RefreshDue == Len(obBefore.cache) = 0 \/ clock - obBefore.last >= CACHE_TTL

\* C28: refreshCache rebuilds the cache iff it is empty or at least 30
\* seconds have passed since the last completed rebuild, and otherwise
\* leaves noteCache and lastCacheUpdate as they were; after a rebuild the
\* cache holds exactly the notes parsed in it, no entry of a deleted note
\* survives, and every backlink is computed from that rebuild alone.
C28_CacheTtl ==
    (server = "obsidian" /\ obPc = "done") =>
        /\ ~RefreshDue =>
              /\ noteCache = obBefore.cache
              /\ lastCacheUpdate = obBefore.last
        /\ RefreshDue =>
              /\ BuiltFromVault(noteCache)
              /\ obResp = "result" =>
                    /\ lastCacheUpdate = clock
                    /\ PathsOf(noteCache) = PresentNotes
                    /\ CompleteSnapshot(noteCache)
              /\ obResp = "thrown" =>
                    /\ lastCacheUpdate = obBefore.last
                    /\ PathsOf(noteCache) \in {<<>>, PresentNotes}

\* a rebuild after the lifetime of a cache of two notes, of which the one
\* that linked to the other has been deleted since
C28_Witness ==
    /\ server = "obsidian"
    /\ obPc = "done"
    /\ obResp = "result"
    /\ clock - obBefore.last = CACHE_TTL
    /\ PathsOf(obBefore.cache) = NoteOrder
    /\ obBefore.cache[2].backlinks = <<NoteOrder[1]>>
    /\ ~vault[NoteOrder[1]].present
    /\ PathsOf(noteCache) = <<NoteOrder[2]>>
    /\ noteCache[1].backlinks = <<>>
    /\ lastCacheUpdate = clock


\* the directories read and the entries pushed, as positions of the log
ReadAt == {i \in 1..Len(ldOut.log) : ldOut.log[i].op = "readdir"}

PushedAt == {i \in 1..Len(ldOut.log) : ldOut.log[i].op = "push"}

\* how many levels below the start directory a path lies
LevelsBelow(path) == Len(path) - Len(ldStart)

ParentOf(path) == SubSeq(path, 1, Len(path) - 1)

\* C29: for every value of MAX_RESULTS from 1 on, listDir returns at most
\* MAX_RESULTS entries; once the cap is reached it adds no entry and reads no
\* further directory; it reads no directory nested more than 10 levels below
\* the start directory; it lists no ignored entry; the entries are in
\* pre-order, a directory before its contents; and without recursive only
\* the start directory is read.
C29_ScanCap ==
    (server = "listing" /\ ldPc = "done") =>
        /\ Len(ldOut.results) <= ldMax
        /\ Cardinality(PushedAt) = Len(ldOut.results)
        /\ Len(ldOut.results) = ldMax => ldOut.log[Len(ldOut.log)].op = "push"
        /\ \A i \in ReadAt : LevelsBelow(ldOut.log[i].path) <= 10
        /\ \A i \in 1..Len(ldOut.results) :
              /\ \A j \in 1..Len(ldOut.results[i].path) :
                    ldOut.results[i].path[j][1]
                        \notin {"node_modules", ".git", "build", ".env", "debug.log"}
              /\ ldOut.results[i].type \in {"file", "directory"}
              /\ LevelsBelow(ldOut.results[i].path) > 1 =>
                    \E j \in 1..(i - 1) :
                        /\ ldOut.results[j].path = ParentOf(ldOut.results[i].path)
                        /\ ldOut.results[j].type = "directory"
              /\ \A j \in 1..(i - 1) : ldOut.results[j].path # ldOut.results[i].path
        /\ \A i \in PushedAt :
              \E j \in ReadAt : j < i /\ ldOut.log[j].path = ParentOf(ldOut.log[i].path)
        /\ ~ldRecursive => ReadAt \subseteq {1}

\* a recursive listing capped at three entries that reached the cap two
\* directories down and left the rest of the tree unlisted
C29_Witness ==
    /\ server = "listing"
    /\ ldPc = "done"
    /\ ldRecursive
    /\ ldMax = 3
    /\ Len(ldOut.results) = 3
    /\ LevelsBelow(ldOut.results[3].path) = 3
    /\ ldOut.results[3].name = <<"c", 1>>
    /\ Len(ldTree) > 3
    /\ Cardinality(ReadAt) = 3


\* a path inside the vault: below VAULT_PATH, not VAULT_PATH itself
InsideVault(file) ==
    LET segs == Segments(file)
        root == Segments(VAULT_PATH)
    IN  Len(segs) > Len(root) /\ SubSeq(segs, 1, Len(root)) = root

\* C30: for any path argument, readNote (behind read_note, get_backlinks and
\* the resource read) reads only a file whose path ends in '.md' and lies
\* inside VAULT_PATH and returns at most MAX_CONTENT_LENGTH characters of it;
\* a path that names no such file yields null.
C30_VaultConfined ==
    (server = "obsidian" /\ obPc = "done" /\ obRead.tool # "none") =>
        /\ obRead.file # <<>> =>
              /\ obRead.file[Len(obRead.file)] = ".md"
              /\ InsideVault(obRead.file)
        /\ obRead.chars <= MAX_CONTENT_LENGTH
        /\ obRead.result = "content" => obRead.file # <<>>

====
